---- MODULE Spec2Model ----
(***************************************************************************)
(* Dynamic bit vector (red-black tree of bit-block leaves) and the dynamic *)
(* balanced-parenthesis tree built on it.                                  *)
(*                                                                         *)
(* C++ indices are 0-based, TLA+ sequences 1-based: block b of a leaf is   *)
(* blocks[b + 1].  Node pointers are arena indices, 0 is nullptr.          *)
(***************************************************************************)
EXTENDS Integers, Sequences, FiniteSets, TLC

(***************************************************************************)
(* Parameters.                                                             *)
(***************************************************************************)
\* Bits per block (8 * sizeof(BlockType) in the source), scaled down.
BLOCK_SIZE == 2
\* Template arguments <.., 1, 2, 4> of the mixed insert/delete test.
MinLeafSizeBlocks == 1
InitialLeafSizeBlocks == 2
MaxLeafSizeBlocks == 4
\* SizeType is uint16_t (as in dynamic_bitvector_flip_test): counters wrap.
SIZE_BITS == 16
\* Largest vector on which every position and value is tried.
MaxFull == 8
\* Length to which the grow/shrink workload grows the vector.
DeepN == 36
\* Largest number of nodes of the balanced-parenthesis tree.
MaxNodes == 5

SIZE_MOD == 2 ^ SIZE_BITS
BLOCK_MOD == 2 ^ BLOCK_SIZE

Bit == {0, 1}
B2N(b) == IF b THEN 1 ELSE 0

\* Unsigned SizeType arithmetic.
Add(x, y) == (x + y) % SIZE_MOD
Sub(x, y) == (x - y + SIZE_MOD) % SIZE_MOD

(***************************************************************************)
(* SimpleBitVector (the Leaf of the dynamic bit vector), block level.      *)
(* A leaf is [current_size_bits, blocks, has_buffer]; has_buffer says      *)
(* whether the std::vector of blocks has ever allocated storage.           *)
(***************************************************************************)
\* Mutant: one block more than the bits need.
Leaf_new_spare_block(initial_size) ==
  [current_size_bits |-> initial_size,
   blocks |-> [b \in 1..(initial_size \div BLOCK_SIZE + 1) |-> 0],
   has_buffer |-> TRUE]

Leaf_new(initial_size) ==
  LET n == IF initial_size = 0 THEN 0 ELSE (initial_size - 1) \div BLOCK_SIZE + 1
  IN [current_size_bits |-> initial_size,
      blocks |-> [b \in 1..n |-> 0],
      has_buffer |-> n > 0]

get_required_blocks(num_bits) == (num_bits - 1) \div BLOCK_SIZE + 1

Leaf_access_bit(block, i) == (block \div (2 ^ i)) % 2

RECURSIVE popcount(_)
popcount(block) == IF block = 0 THEN 0 ELSE (block % 2) + popcount(block \div 2)

size_in_blocks(l) == Len(l.blocks)

Leaf_size(l) == l.current_size_bits

\* operator[]
Leaf_get(l, i) ==
  Leaf_access_bit(l.blocks[(i \div BLOCK_SIZE) + 1], i % BLOCK_SIZE)

\* blocks[b] |= 1 << pos ; blocks[b] &= ~(1 << pos) ; blocks[b] ^= 1 << pos
BitOr(block, pos) ==
  IF Leaf_access_bit(block, pos) = 1 THEN block ELSE block + 2 ^ pos
BitClear(block, pos) ==
  IF Leaf_access_bit(block, pos) = 1 THEN block - 2 ^ pos ELSE block
BitXor(block, pos) ==
  IF Leaf_access_bit(block, pos) = 1 THEN block - 2 ^ pos ELSE block + 2 ^ pos

Leaf_set_true(l, i) ==
  [l EXCEPT !.blocks[(i \div BLOCK_SIZE) + 1] = BitOr(@, i % BLOCK_SIZE)]

Leaf_reset(l, i) ==
  [l EXCEPT !.blocks[(i \div BLOCK_SIZE) + 1] = BitClear(@, i % BLOCK_SIZE)]

Leaf_set(l, i, value) ==
  IF value = 1 THEN Leaf_set_true(l, i) ELSE Leaf_reset(l, i)

Leaf_flip(l, i) ==
  [l EXCEPT !.blocks[(i \div BLOCK_SIZE) + 1] = BitXor(@, i % BLOCK_SIZE)]

\* The loop "shift all other blocks after it" of insert.
RECURSIVE Leaf_insert_shift(_, _, _)
Leaf_insert_shift(l, block, last_block_value) ==
  IF block >= size_in_blocks(l) THEN l
  ELSE LET new_last_block_value ==
             Leaf_get(l, block * BLOCK_SIZE + BLOCK_SIZE - 1)
           shifted == [l EXCEPT !.blocks[block + 1] = (@ * 2) % BLOCK_MOD]
       IN Leaf_insert_shift(
            Leaf_set(shifted, block * BLOCK_SIZE, last_block_value),
            block + 1, new_last_block_value)

Leaf_insert(l, i, value) ==
  LET grown ==
        IF l.current_size_bits = BLOCK_SIZE * size_in_blocks(l)
        THEN [l EXCEPT !.blocks = Append(@, 0), !.has_buffer = TRUE]
        ELSE l
      l1 == [grown EXCEPT !.current_size_bits = @ + 1]
  IN IF l.current_size_bits = i
     THEN Leaf_set(l1, i, value)
     ELSE
       LET block_num == i \div BLOCK_SIZE
           block_pos == i % BLOCK_SIZE
           last_block_value ==
             Leaf_get(l1, block_num * BLOCK_SIZE + BLOCK_SIZE - 1)
           old == l1.blocks[block_num + 1]
           \* values = ((~0 << block_pos) & block) << 1, as a BlockType
           values == (((old \div (2 ^ block_pos)) * (2 ^ block_pos)) * 2) % BLOCK_MOD
           \* (block & ~mask) | (values & mask), mask = ~0 << (block_pos + 1)
           merged == (old % (2 ^ (block_pos + 1)))
                     + (values \div (2 ^ (block_pos + 1))) * (2 ^ (block_pos + 1))
           l2 == IF (block_pos + 1) % BLOCK_SIZE # 0
                 THEN [l1 EXCEPT !.blocks[block_num + 1] = merged]
                 ELSE l1
           l3 == Leaf_set(l2, i, value)
       IN Leaf_insert_shift(l3, block_num + 1, last_block_value)

\* The loop "shift all other blocks after it" of delete_element; returns
\* the leaf and the final last_block_pos.
RECURSIVE Leaf_delete_shift(_, _, _)
Leaf_delete_shift(l, block, last_block_pos) ==
  IF block >= size_in_blocks(l) THEN [leaf |-> l, last_block_pos |-> last_block_pos]
  ELSE LET moved == Leaf_set(l, last_block_pos, Leaf_get(l, block * BLOCK_SIZE))
           shifted == [moved EXCEPT !.blocks[block + 1] = @ \div 2]
       IN Leaf_delete_shift(shifted, block + 1, last_block_pos + BLOCK_SIZE)

\* Mutant: the test "i == current_size_bits" taken as always true, so the
\* last bit is dropped whatever i is.
Leaf_delete_element_last(l, i) ==
  LET l1 == [l EXCEPT !.current_size_bits = @ - 1]
      l2 == Leaf_reset(l1, l1.current_size_bits)
  IN IF Len(l2.blocks) > 0
        /\ l2.current_size_bits = BLOCK_SIZE * (Len(l2.blocks) - 1)
     THEN [l2 EXCEPT !.blocks = SubSeq(@, 1, Len(@) - 1)]
     ELSE l2

Leaf_delete_element(l, i) ==
  LET l1 == [l EXCEPT !.current_size_bits = @ - 1]
      l2 ==
        IF i = l1.current_size_bits
        THEN Leaf_reset(l1, i)
        ELSE
          LET block_num == i \div BLOCK_SIZE
              block_pos == i % BLOCK_SIZE
              old == l1.blocks[block_num + 1]
              \* values = ((~0 << (block_pos + 1)) & block) >> 1
              values == ((old \div (2 ^ (block_pos + 1))) * (2 ^ (block_pos + 1))) \div 2
              \* (block & ~mask) | (values & mask), mask = ~0 << block_pos
              merged == (old % (2 ^ block_pos))
                        + (values \div (2 ^ block_pos)) * (2 ^ block_pos)
              l3 == [l1 EXCEPT !.blocks[block_num + 1] = merged]
              r == Leaf_delete_shift(l3, block_num + 1,
                                     block_num * BLOCK_SIZE + BLOCK_SIZE - 1)
          IN Leaf_reset(r.leaf, r.last_block_pos)
  IN IF Len(l2.blocks) > 0
        /\ l2.current_size_bits = BLOCK_SIZE * (Len(l2.blocks) - 1)
     THEN [l2 EXCEPT !.blocks = SubSeq(@, 1, Len(@) - 1)]
     ELSE l2

\* What a read of data.blocks[b] can produce: the block when b is in range;
\* any value when it is past the end of an allocated buffer; nothing (the
\* read faults) when the vector never allocated.
blocks_read(l, b) ==
  IF b < Len(l.blocks) THEN {l.blocks[b + 1]}
  ELSE IF l.has_buffer THEN 0..(BLOCK_MOD - 1)
  ELSE {}

RECURSIVE PopcountBlocks(_, _)
PopcountBlocks(blocks, n) ==
  IF n = 0 THEN 0 ELSE popcount(blocks[n]) + PopcountBlocks(blocks, n - 1)

\* The set of results rank_one can return (empty: the call faults).
rank_one(l, i) ==
  LET block_num == i \div BLOCK_SIZE
  IN { popcount(x % (2 ^ (i % BLOCK_SIZE)))
         + PopcountBlocks(l.blocks, IF block_num < Len(l.blocks)
                                    THEN block_num ELSE Len(l.blocks))
       : x \in blocks_read(l, block_num) }

rank_zero(l, i) == { i - r : r \in rank_one(l, i) }

\* First loop of select_one / select_zero: the block to scan and what is
\* left of the count.
RECURSIVE select_block(_, _, _, _)
select_block(l, one, block_idx, sel) ==
  IF block_idx >= size_in_blocks(l) THEN [block_idx |-> block_idx, sel |-> sel]
  ELSE LET num == IF one THEN popcount(l.blocks[block_idx + 1])
                  ELSE BLOCK_SIZE - popcount(l.blocks[block_idx + 1])
       IN IF sel > num THEN select_block(l, one, block_idx + 1, sel - num)
          ELSE [block_idx |-> block_idx, sel |-> sel]

\* The outcome of a call that never returns: no SizeType value.
NeverEnds == SIZE_MOD

\* Second loop: scan the block, --select at every hit until select == 0.
\* Looking for ones in a block shifted down to 0 the loop never ends;
\* looking for zeros there every further bit is a hit, so the loop ends
\* select - 1 positions on (select = 0 wraps to the largest SizeType).
RECURSIVE select_scan(_, _, _, _)
select_scan(block, one, block_pos, sel) ==
  LET hit == IF one THEN block % 2 = 1 ELSE block % 2 = 0
  IN IF hit /\ sel = 1 THEN {block_pos}
     ELSE IF block = 0 THEN
            IF one THEN {NeverEnds} ELSE {Add(block_pos, Sub(sel, 1))}
     ELSE IF hit THEN select_scan(block \div 2, one, Add(block_pos, 1), Sub(sel, 1))
     ELSE select_scan(block \div 2, one, Add(block_pos, 1), sel)

Leaf_select(l, one, i) ==
  LET s == select_block(l, one, 0, i)
  IN UNION { select_scan(x, one, BLOCK_SIZE * s.block_idx, s.sel)
             : x \in blocks_read(l, s.block_idx) }

select_one(l, i) == Leaf_select(l, TRUE, i)
select_zero(l, i) == Leaf_select(l, FALSE, i)

Leaf_num_ones(l) == PopcountBlocks(l.blocks, Len(l.blocks))

\* Mutant: the first half is moved out and the second half kept.
split_halves_swapped(l) ==
  LET moved_blocks == size_in_blocks(l) \div 2
  IN [this |-> [l EXCEPT !.blocks = SubSeq(@, moved_blocks + 1, Len(@)),
                         !.current_size_bits = @ - moved_blocks * BLOCK_SIZE],
      split_out_bv |-> [l EXCEPT !.blocks = SubSeq(@, 1, moved_blocks),
                                 !.current_size_bits = moved_blocks * BLOCK_SIZE]]

\* split(): this leaf keeps the first half; returns both.
split(l) ==
  LET moved_blocks == size_in_blocks(l) \div 2
      out0 == Leaf_new(l.current_size_bits - moved_blocks * BLOCK_SIZE)
      previous_num_blocks == size_in_blocks(l)
      out == [out0 EXCEPT !.blocks =
                [b \in 1..Len(out0.blocks) |->
                   IF b + moved_blocks <= previous_num_blocks
                   THEN l.blocks[b + moved_blocks] ELSE 0]]
  IN [this |-> [l EXCEPT !.blocks = SubSeq(@, 1, moved_blocks),
                         !.current_size_bits = moved_blocks * BLOCK_SIZE],
      split_out_bv |-> out]

\* The non-aligned loop of copy_to_back.
RECURSIVE copy_shifted(_, _, _, _, _, _, _, _)
copy_shifted(blocks, other, i, old_num_blocks, insert_pos, last_block, next_block, next_block_to_copy) ==
  IF i >= Len(blocks) THEN blocks
  ELSE
    LET last_block_shift ==
          IF i = old_num_blocks - 1 THEN 0 ELSE BLOCK_SIZE - insert_pos
        low == (last_block \div (2 ^ last_block_shift)) % (2 ^ insert_pos)
        high == ((next_block * (2 ^ insert_pos)) % BLOCK_MOD)
        nxt == IF next_block_to_copy < size_in_blocks(other)
               THEN other.blocks[next_block_to_copy + 1] ELSE 0
    IN copy_shifted([blocks EXCEPT ![i + 1] = low + high], other, i + 1,
                    old_num_blocks, insert_pos, next_block, nxt,
                    next_block_to_copy + 1)

\* Mutant: the blocks of other are appended whole whatever the tail is.
copy_to_back_whole_blocks(l, other) ==
  IF size_in_blocks(other) = 0 THEN l
  ELSE [l EXCEPT !.blocks = @ \o other.blocks,
                 !.has_buffer = TRUE,
                 !.current_size_bits = @ + Leaf_size(other)]

copy_to_back(l, other) ==
  IF size_in_blocks(other) = 0 THEN l
  ELSE
    LET required_blocks ==
          get_required_blocks(l.current_size_bits + Leaf_size(other))
        old_num_blocks == size_in_blocks(l)
        insert_pos == l.current_size_bits % BLOCK_SIZE
        newblocks ==
          IF insert_pos # 0
          THEN copy_shifted(
                 l.blocks \o [b \in 1..(required_blocks - old_num_blocks) |-> 0],
                 other, old_num_blocks - 1, old_num_blocks, insert_pos,
                 l.blocks[old_num_blocks], other.blocks[1], 1)
          ELSE l.blocks \o [b \in 1..(required_blocks - old_num_blocks) |->
                              other.blocks[b]]
    IN [l EXCEPT !.blocks = newblocks,
                 !.has_buffer = TRUE,
                 !.current_size_bits = @ + Leaf_size(other)]

\* push_back(value) and pop_back().
Leaf_push_back(l, value) == Leaf_insert(l, l.current_size_bits, value)

Leaf_pop_back(l) == Leaf_delete_element(l, l.current_size_bits - 1)

\* The bits of a leaf, in order (read through operator[]).
LeafBits(l) == [k \in 1..l.current_size_bits |-> Leaf_get(l, k - 1)]

(***************************************************************************)
(* DynamicBitVector: nodes of the red-black tree.  A heap value is         *)
(* [nodes, root, ev]: the arena of live nodes, the root pointer and the    *)
(* set of internal steps the running operation has taken so far.           *)
(***************************************************************************)
nullptr == 0

\* F applied to the value of v: names an intermediate result.
Let(v, F(_)) == F(v)

\* A default-constructed Node; leaf_data is <<>> for nullptr, <<leaf>> else.
Node == [parent |-> nullptr, left |-> nullptr, right |-> nullptr,
         color |-> "RED", num_bits_left_tree |-> 0, ones_in_left_tree |-> 0,
         leaf_data |-> <<>>]

\* new Node(): the smallest unused arena index.
NewId(nodes) == CHOOSE n \in 1..(Cardinality(DOMAIN nodes) + 1) : n \notin DOMAIN nodes
Alloc(h, id, rec) == [h EXCEPT !.nodes = (id :> rec) @@ h.nodes]
\* delete node
Free(h, id) == [h EXCEPT !.nodes = [n \in (DOMAIN h.nodes) \ {id} |-> h.nodes[n]]]
Ev(h, e) == [h EXCEPT !.ev = @ \cup {e}]

HasLeaf(h, n) == h.nodes[n].leaf_data # <<>>
LeafOf(h, n) == h.nodes[n].leaf_data[1]

get_color(h, node) ==
  IF node = nullptr \/ HasLeaf(h, node) THEN "BLACK" ELSE h.nodes[node].color

set_color(h, node, color) ==
  IF node # nullptr THEN [h EXCEPT !.nodes[node].color = color] ELSE h

\* Mutant: the rotation without the update of the bit counters.
rotate_left_no_counters(h, node) ==
  LET right_child == h.nodes[node].right
      moved == h.nodes[right_child].left
      par == h.nodes[node].parent
  IN
  Let([h.nodes EXCEPT ![node].right = moved], LAMBDA n1 :
  Let([(IF moved # nullptr THEN [n1 EXCEPT ![moved].parent = node] ELSE n1)
         EXCEPT ![right_child].parent = par], LAMBDA n3 :
    [h EXCEPT
       !.root = IF par = nullptr THEN right_child ELSE @,
       !.nodes = [(IF par = nullptr THEN n3
                   ELSE IF node = n3[par].left
                   THEN [n3 EXCEPT ![par].left = right_child]
                   ELSE [n3 EXCEPT ![par].right = right_child])
                  EXCEPT ![right_child].left = node, ![node].parent = right_child]]))

rotate_left(h, node) ==
  LET right_child == h.nodes[node].right
      moved == h.nodes[right_child].left
      par == h.nodes[node].parent
  IN
  Let([h.nodes EXCEPT ![node].right = moved], LAMBDA n1 :
  Let([(IF moved # nullptr THEN [n1 EXCEPT ![moved].parent = node] ELSE n1)
         EXCEPT ![right_child].parent = par], LAMBDA n3 :
  Let([(IF par = nullptr THEN n3
        ELSE IF node = n3[par].left
        THEN [n3 EXCEPT ![par].left = right_child]
        ELSE [n3 EXCEPT ![par].right = right_child])
         EXCEPT ![right_child].left = node, ![node].parent = right_child], LAMBDA n5 :
    [h EXCEPT
       !.root = IF par = nullptr THEN right_child ELSE @,
       !.nodes = [n5 EXCEPT
         ![right_child].num_bits_left_tree = Add(@, n5[node].num_bits_left_tree),
         ![right_child].ones_in_left_tree = Add(@, n5[node].ones_in_left_tree)]])))

\* Mutant: the subtree handed over to node keeps its old parent pointer.
rotate_right_stale_parent(h, node) ==
  LET left_child == h.nodes[node].left
      moved == h.nodes[left_child].right
      par == h.nodes[node].parent
  IN
  Let([h.nodes EXCEPT ![node].left = moved, ![left_child].parent = par], LAMBDA n3 :
  Let([(IF par = nullptr THEN n3
        ELSE IF node = n3[par].left
        THEN [n3 EXCEPT ![par].left = left_child]
        ELSE [n3 EXCEPT ![par].right = left_child])
         EXCEPT ![left_child].right = node, ![node].parent = left_child], LAMBDA n5 :
    [h EXCEPT
       !.root = IF par = nullptr THEN left_child ELSE @,
       !.nodes = [n5 EXCEPT
         ![node].num_bits_left_tree = Sub(@, n5[left_child].num_bits_left_tree),
         ![node].ones_in_left_tree = Sub(@, n5[left_child].ones_in_left_tree)]]))

rotate_right(h, node) ==
  LET left_child == h.nodes[node].left
      moved == h.nodes[left_child].right
      par == h.nodes[node].parent
  IN
  Let([h.nodes EXCEPT ![node].left = moved], LAMBDA n1 :
  Let([(IF moved # nullptr THEN [n1 EXCEPT ![moved].parent = node] ELSE n1)
         EXCEPT ![left_child].parent = par], LAMBDA n3 :
  Let([(IF par = nullptr THEN n3
        ELSE IF node = n3[par].left
        THEN [n3 EXCEPT ![par].left = left_child]
        ELSE [n3 EXCEPT ![par].right = left_child])
         EXCEPT ![left_child].right = node, ![node].parent = left_child], LAMBDA n5 :
    [h EXCEPT
       !.root = IF par = nullptr THEN left_child ELSE @,
       !.nodes = [n5 EXCEPT
         ![node].num_bits_left_tree = Sub(@, n5[left_child].num_bits_left_tree),
         ![node].ones_in_left_tree = Sub(@, n5[left_child].ones_in_left_tree)]])))

\* std::swap(a->color, b->color)
swap_color(h, a, b) ==
  [h EXCEPT !.nodes[a].color = h.nodes[b].color,
            !.nodes[b].color = h.nodes[a].color]

\* The while loop of rebalance_after_insertion.
RECURSIVE rebalance_after_insertion_loop(_, _)
rebalance_after_insertion_loop(h, node) ==
  IF ~(node # h.root /\ get_color(h, node) = "RED"
       /\ get_color(h, h.nodes[node].parent) = "RED")
  THEN h
  ELSE
    LET parent == h.nodes[node].parent
        grandparent == h.nodes[parent].parent
    IN IF parent = h.nodes[grandparent].left
       THEN
         LET uncle == h.nodes[grandparent].right
         IN IF get_color(h, uncle) = "RED"
            THEN rebalance_after_insertion_loop(
                   Ev(set_color(set_color(set_color(h, uncle, "BLACK"),
                                          parent, "BLACK"),
                                grandparent, "RED"), "insert_recolor"),
                   grandparent)
            ELSE
              LET inner == node = h.nodes[parent].right
                  node1 == IF inner THEN parent ELSE node
              IN Let(IF inner THEN Ev(rotate_left(h, parent), "insert_rotate_inner")
                     ELSE h, LAMBDA h1 :
                   LET parent1 == IF inner THEN h1.nodes[node1].parent ELSE parent
                   IN rebalance_after_insertion_loop(
                        Ev(swap_color(rotate_right(h1, grandparent), parent1, grandparent),
                           "insert_rotate"), parent1))
       ELSE
         LET uncle == h.nodes[grandparent].left
         IN IF get_color(h, uncle) = "RED"
            THEN rebalance_after_insertion_loop(
                   Ev(set_color(set_color(set_color(h, uncle, "BLACK"),
                                          parent, "BLACK"),
                                grandparent, "RED"), "insert_recolor"),
                   grandparent)
            ELSE
              LET inner == node = h.nodes[parent].left
                  node1 == IF inner THEN parent ELSE node
              IN Let(IF inner THEN Ev(rotate_right(h, parent), "insert_rotate_inner")
                     ELSE h, LAMBDA h1 :
                   LET parent1 == IF inner THEN h1.nodes[node1].parent ELSE parent
                   IN rebalance_after_insertion_loop(
                        Ev(swap_color(rotate_left(h1, grandparent), parent1, grandparent),
                           "insert_rotate"), parent1))

rebalance_after_insertion(h, node) ==
  Let(rebalance_after_insertion_loop(h, node), LAMBDA h1 :
    set_color(h1, h1.root, "BLACK"))

\* --parent->parent->ones_in_left_tree (for a deleted one) and
\* --parent->parent->num_bits_left_tree, after rotate_left(parent).
decrement_above(h, parent, deleted_bit) ==
  LET pp == h.nodes[parent].parent
  IN [h EXCEPT
        !.nodes[pp].ones_in_left_tree =
           IF deleted_bit = "DELETED_ONE" THEN Sub(@, 1) ELSE @,
        !.nodes[pp].num_bits_left_tree = Sub(@, 1)]

\* The while loop "fix all double black occurrences".
RECURSIVE double_black_loop(_, _, _)
double_black_loop(h, ptr, deleted_bit) ==
  IF ~(ptr # h.root /\ get_color(h, ptr) = "DOUBLE_BLACK") THEN h
  ELSE
    LET parent == h.nodes[ptr].parent
    IN IF ptr = h.nodes[parent].left
       THEN
         LET sibling == h.nodes[parent].right
         IN IF get_color(h, sibling) = "RED"
            THEN
              double_black_loop(
                Ev(decrement_above(
                     rotate_left(set_color(set_color(h, sibling, "BLACK"), parent, "RED"),
                                 parent),
                     parent, deleted_bit), "double_black_sibling_red"),
                ptr, deleted_bit)
            ELSE IF get_color(h, h.nodes[sibling].left) = "BLACK"
                    /\ get_color(h, h.nodes[sibling].right) = "BLACK"
            THEN
              Let(set_color(h, sibling, "RED"), LAMBDA h1 :
                double_black_loop(
                  Ev(IF get_color(h1, parent) = "RED"
                     THEN set_color(h1, parent, "BLACK")
                     ELSE set_color(h1, parent, "DOUBLE_BLACK"), "double_black_recolor"),
                  parent, deleted_bit))
            ELSE
              LET inner == get_color(h, h.nodes[sibling].right) = "BLACK"
              IN Let(IF inner
                     THEN Ev(rotate_right(
                               set_color(set_color(h, h.nodes[sibling].left, "BLACK"),
                                         sibling, "RED"),
                               sibling), "double_black_rotate_inner")
                     ELSE h, LAMBDA h1 :
                 LET sibling1 == IF inner THEN h1.nodes[parent].right ELSE sibling
                 IN Let(set_color(set_color(h1, sibling1, h1.nodes[parent].color),
                                  parent, "BLACK"), LAMBDA h3 :
                      Ev(decrement_above(
                           rotate_left(set_color(h3, h3.nodes[sibling1].right, "BLACK"),
                                       parent),
                           parent, deleted_bit), "double_black_rotate")))
       ELSE
         LET sibling == h.nodes[parent].left
         IN IF get_color(h, sibling) = "RED"
            THEN
              double_black_loop(
                Ev(rotate_right(set_color(set_color(h, sibling, "BLACK"), parent, "RED"),
                                parent), "double_black_sibling_red"),
                ptr, deleted_bit)
            ELSE IF get_color(h, h.nodes[sibling].left) = "BLACK"
                    /\ get_color(h, h.nodes[sibling].right) = "BLACK"
            THEN
              Let(set_color(h, sibling, "RED"), LAMBDA h1 :
                double_black_loop(
                  Ev(IF get_color(h1, parent) = "RED"
                     THEN set_color(h1, parent, "BLACK")
                     ELSE set_color(h1, parent, "DOUBLE_BLACK"), "double_black_recolor"),
                  parent, deleted_bit))
            ELSE
              LET inner == get_color(h, h.nodes[sibling].left) = "BLACK"
              IN Let(IF inner
                     THEN Ev(rotate_left(
                               set_color(set_color(h, h.nodes[sibling].right, "BLACK"),
                                         sibling, "RED"),
                               sibling), "double_black_rotate_inner")
                     ELSE h, LAMBDA h1 :
                 LET sibling1 == IF inner THEN h1.nodes[parent].left ELSE sibling
                 IN Let(set_color(set_color(h1, sibling1, h1.nodes[parent].color),
                                  parent, "BLACK"), LAMBDA h3 :
                      Ev(rotate_right(set_color(h3, h3.nodes[sibling1].left, "BLACK"),
                                      parent), "double_black_rotate")))

\* node has lost one child (its pointer to it is already null): unlink node.
rebalance_after_deletion(h, node, deleted_bit) ==
  LET root == h.root
      nd == h.nodes[node]
  IN
  IF node = root THEN
    LET child == IF nd.left # nullptr THEN nd.left ELSE nd.right
    IN IF HasLeaf(h, child)
       THEN \* root becomes leaf
         Ev(Free([h EXCEPT !.nodes[root].leaf_data = h.nodes[child].leaf_data,
                           !.nodes[root].left = nullptr,
                           !.nodes[root].right = nullptr], child),
            "delete_root_becomes_leaf")
       ELSE \* child is new root
         LET h1 == Free([h EXCEPT !.nodes[child].parent = nullptr,
                                  !.root = child], root)
         IN Ev(set_color(h1, h1.root, "BLACK"), "delete_root_child_up")
  ELSE IF get_color(h, node) = "RED" \/ get_color(h, nd.left) = "RED"
          \/ get_color(h, nd.right) = "RED"
  THEN
    LET child == IF nd.left # nullptr THEN nd.left ELSE nd.right
        par == nd.parent
        h1 == IF node = h.nodes[par].left
              THEN [h EXCEPT !.nodes[par].left = child]
              ELSE [h EXCEPT !.nodes[par].right = child]
        h2 == IF child # nullptr THEN [h1 EXCEPT !.nodes[child].parent = par] ELSE h1
    IN Ev(Free(set_color(h2, child, "BLACK"), node), "delete_recolor")
  ELSE
    Let(double_black_loop(Ev(set_color(h, node, "DOUBLE_BLACK"), "double_black"),
                          node, deleted_bit), LAMBDA h1 :
      LET nd1 == h1.nodes[node]
          leaf == IF nd1.left # nullptr THEN nd1.left ELSE nd1.right
      IN Let([h1 EXCEPT !.nodes[leaf].parent = nd1.parent], LAMBDA h2 :
         Let(Free(IF node = h2.nodes[nd1.parent].left
                  THEN [h2 EXCEPT !.nodes[nd1.parent].left = leaf]
                  ELSE [h2 EXCEPT !.nodes[nd1.parent].right = leaf], node), LAMBDA h4 :
           set_color(h4, h4.root, "BLACK"))))

(***************************************************************************)
(* DynamicBitVector: recursive descents.                                   *)
(***************************************************************************)
SetLeaf(h, node, l) == [h EXCEPT !.nodes[node].leaf_data = <<l>>]

RECURSIVE access_bit(_, _, _)
access_bit(h, node, i) ==
  IF HasLeaf(h, node) THEN Leaf_get(LeafOf(h, node), i)
  ELSE IF h.nodes[node].num_bits_left_tree <= i
  THEN access_bit(h, h.nodes[node].right, Sub(i, h.nodes[node].num_bits_left_tree))
  ELSE access_bit(h, h.nodes[node].left, i)

\* Returns the heap and the BitChangeResult.
RECURSIVE set_bit(_, _, _, _)
set_bit(h, node, i, value) ==
  IF HasLeaf(h, node)
  THEN LET prev_value == Leaf_get(LeafOf(h, node), i)
       IN [h |-> SetLeaf(h, node, Leaf_set(LeafOf(h, node), i, value)),
           change |-> IF prev_value = 1 /\ value = 0 THEN "ONE_LESS_ONE"
                      ELSE IF prev_value = 0 /\ value = 1 THEN "ONE_MORE_ONE"
                      ELSE "NO_CHANGE"]
  ELSE IF h.nodes[node].num_bits_left_tree <= i
  THEN set_bit(h, h.nodes[node].right, Sub(i, h.nodes[node].num_bits_left_tree), value)
  ELSE LET r == set_bit(h, h.nodes[node].left, i, value)
       IN [r EXCEPT !.h.nodes[node].ones_in_left_tree =
             IF r.change = "ONE_LESS_ONE" THEN Sub(@, 1)
             ELSE IF r.change = "ONE_MORE_ONE" THEN Add(@, 1)
             ELSE @]

\* Returns the heap and whether the bit is set afterwards.
RECURSIVE flip_bit(_, _, _)
\* Mutant: ones_in_left_tree is incremented whichever way the bit flipped.
flip_bit_always_more(h, node, i) ==
  IF HasLeaf(h, node)
  THEN LET l == Leaf_flip(LeafOf(h, node), i)
       IN [h |-> SetLeaf(h, node, l), flipped_to_one |-> Leaf_get(l, i) = 1]
  ELSE IF h.nodes[node].num_bits_left_tree <= i
  THEN flip_bit(h, h.nodes[node].right, Sub(i, h.nodes[node].num_bits_left_tree))
  ELSE LET r == flip_bit(h, h.nodes[node].left, i)
       IN [r EXCEPT !.h.nodes[node].ones_in_left_tree = Add(@, 1)]

flip_bit(h, node, i) ==
  IF HasLeaf(h, node)
  THEN LET l == Leaf_flip(LeafOf(h, node), i)
       IN [h |-> SetLeaf(h, node, l), flipped_to_one |-> Leaf_get(l, i) = 1]
  ELSE IF h.nodes[node].num_bits_left_tree <= i
  THEN flip_bit(h, h.nodes[node].right, Sub(i, h.nodes[node].num_bits_left_tree))
  ELSE LET r == flip_bit(h, h.nodes[node].left, i)
       IN [r EXCEPT !.h.nodes[node].ones_in_left_tree =
             IF r.flipped_to_one THEN Add(@, 1) ELSE Sub(@, 1)]

\* The set of values the call can return (empty: it returns none).
RECURSIVE rank_at_node(_, _, _, _, _)
rank_at_node(h, node, one, i, acc) ==
  IF HasLeaf(h, node)
  THEN { Add(acc, r) : r \in IF one THEN rank_one(LeafOf(h, node), i)
                             ELSE rank_zero(LeafOf(h, node), i) }
  ELSE IF h.nodes[node].num_bits_left_tree <= i
  THEN rank_at_node(h, h.nodes[node].right, one,
                    Sub(i, h.nodes[node].num_bits_left_tree),
                    Add(acc, IF one THEN h.nodes[node].ones_in_left_tree
                             ELSE Sub(h.nodes[node].num_bits_left_tree,
                                      h.nodes[node].ones_in_left_tree)))
  ELSE rank_at_node(h, h.nodes[node].left, one, i, acc)

RECURSIVE select_at_node(_, _, _, _, _)
\* Mutant: the descent to the right forgets to add num_bits_left_tree.
select_at_node_no_offset(h, node, one, i, acc) ==
  IF HasLeaf(h, node)
  THEN { IF r = NeverEnds THEN r ELSE Add(acc, r)
         : r \in IF one THEN select_one(LeafOf(h, node), i)
                 ELSE select_zero(LeafOf(h, node), i) }
  ELSE
    LET relevant_bits_in_left_tree ==
          IF one THEN h.nodes[node].ones_in_left_tree
          ELSE Sub(h.nodes[node].num_bits_left_tree, h.nodes[node].ones_in_left_tree)
    IN IF relevant_bits_in_left_tree < i
       THEN select_at_node(h, h.nodes[node].right, one,
                           Sub(i, relevant_bits_in_left_tree), acc)
       ELSE select_at_node(h, h.nodes[node].left, one, i, acc)

select_at_node(h, node, one, i, acc) ==
  IF HasLeaf(h, node)
  THEN { IF r = NeverEnds THEN r ELSE Add(acc, r)
         : r \in IF one THEN select_one(LeafOf(h, node), i)
                 ELSE select_zero(LeafOf(h, node), i) }
  ELSE
    LET relevant_bits_in_left_tree ==
          IF one THEN h.nodes[node].ones_in_left_tree
          ELSE Sub(h.nodes[node].num_bits_left_tree, h.nodes[node].ones_in_left_tree)
    IN IF relevant_bits_in_left_tree < i
       THEN select_at_node(h, h.nodes[node].right, one,
                           Sub(i, relevant_bits_in_left_tree),
                           Add(acc, h.nodes[node].num_bits_left_tree))
       ELSE select_at_node(h, h.nodes[node].left, one, i, acc)

\* The split inside insert_at_node: the leaf container becomes a RED inner
\* node over two new BLACK leaf containers, before the fix-up runs.
insert_at_node_split(h, node, left_leaf) ==
  LET s == split(left_leaf)
      lid == NewId(h.nodes)
      h1 == Alloc(h, lid, [Node EXCEPT !.color = "BLACK", !.parent = node,
                                       !.leaf_data = <<s.this>>])
      rid == NewId(h1.nodes)
      h2 == Alloc(h1, rid, [Node EXCEPT !.color = "BLACK", !.parent = node,
                                        !.leaf_data = <<s.split_out_bv>>])
  IN [h2 EXCEPT
        !.nodes[node].leaf_data = <<>>,
        !.nodes[node].color = "RED",
        !.nodes[node].num_bits_left_tree = Leaf_size(s.this) % SIZE_MOD,
        !.nodes[node].ones_in_left_tree = Leaf_num_ones(s.this) % SIZE_MOD,
        !.nodes[node].left = lid,
        !.nodes[node].right = rid]

RECURSIVE insert_at_node(_, _, _, _)
insert_at_node(h, node, i, value) ==
  IF HasLeaf(h, node)
  THEN
    LET left_leaf == Leaf_insert(LeafOf(h, node), i, value)
    IN IF size_in_blocks(left_leaf) >= MaxLeafSizeBlocks
       THEN rebalance_after_insertion(
              Ev(insert_at_node_split(h, node, left_leaf), "split"), node)
       ELSE SetLeaf(h, node, left_leaf)
  ELSE IF h.nodes[node].num_bits_left_tree <= i
  THEN insert_at_node(h, h.nodes[node].right,
                      Sub(i, h.nodes[node].num_bits_left_tree), value)
  ELSE insert_at_node(
         [h EXCEPT !.nodes[node].num_bits_left_tree = Add(@, 1),
                   !.nodes[node].ones_in_left_tree =
                      IF value = 1 THEN Add(@, 1) ELSE @],
         h.nodes[node].left, i, value)

RECURSIVE move_to_leaf(_, _, _, _, _, _)
move_to_leaf(h, node, i, src, num_ones_leaf, insert_back) ==
  IF HasLeaf(h, node)
  THEN
    IF insert_back
    THEN \* move right leaf into left subtree
      LET h1 == SetLeaf(h, node, copy_to_back(LeafOf(h, node), LeafOf(h, src)))
          h2 == [h1 EXCEPT !.nodes[h1.nodes[src].parent].right = nullptr]
      IN Free(h2, src)
    ELSE \* move left leaf into right subtree
      LET h1 == SetLeaf(h, node, copy_to_back(LeafOf(h, src), LeafOf(h, node)))
          h2 == [h1 EXCEPT !.nodes[h1.nodes[src].parent].left = nullptr]
      IN Free(h2, src)
  ELSE IF h.nodes[node].num_bits_left_tree <= i
  THEN move_to_leaf(h, h.nodes[node].right,
                    Sub(i, h.nodes[node].num_bits_left_tree),
                    src, num_ones_leaf, insert_back)
  ELSE move_to_leaf(
         [h EXCEPT !.nodes[node].num_bits_left_tree =
                      Add(@, Leaf_size(LeafOf(h, src))),
                   !.nodes[node].ones_in_left_tree = Add(@, num_ones_leaf)],
         h.nodes[node].left, i, src, num_ones_leaf, insert_back)

\* Mutant: a leaf never reports an underflow.
underflows_never(h, node, allow_underflow) == FALSE

\* The test of delete_at_node for "do not delete, let the parent merge".
underflows(h, node, allow_underflow) ==
  /\ ~allow_underflow
  /\ node # h.root
  /\ size_in_blocks(LeafOf(h, node)) <= MinLeafSizeBlocks

\* Returns the heap and the LeafDeletion result.
RECURSIVE delete_at_node(_, _, _, _, _, _)
delete_at_node(h, node, i, num_bits, ones, allow_underflow) ==
  IF HasLeaf(h, node)
  THEN
    IF underflows(h, node, allow_underflow)
    THEN [h |-> h, result |-> "UNDERFLOW"]
    ELSE [h |-> SetLeaf(h, node, Leaf_delete_element(LeafOf(h, node), i)),
          result |-> IF Leaf_get(LeafOf(h, node), i) = 1
                     THEN "DELETED_ONE" ELSE "DELETED_ZERO"]
  ELSE IF h.nodes[node].num_bits_left_tree <= i
  THEN \* index in right subtree
    LET r == delete_at_node(h, h.nodes[node].right,
                            Sub(i, h.nodes[node].num_bits_left_tree),
                            Sub(num_bits, h.nodes[node].num_bits_left_tree),
                            Sub(ones, h.nodes[node].ones_in_left_tree),
                            allow_underflow)
        deletion_successful == r.result
        ones1 == IF deletion_successful = "DELETED_ONE" THEN Sub(ones, 1) ELSE ones
        nd == r.h.nodes[node]
    IN IF deletion_successful = "UNDERFLOW" THEN r
       ELSE IF Sub(num_bits, nd.num_bits_left_tree) = MinLeafSizeBlocks * BLOCK_SIZE
       THEN
         LET st == delete_at_node(r.h, nd.left, Sub(nd.num_bits_left_tree, 1),
                                  nd.num_bits_left_tree, 0, FALSE)
             sd == st.h.nodes[node]
         IN IF st.result = "UNDERFLOW"
            THEN
              LET h1 == move_to_leaf(st.h, sd.left, sd.num_bits_left_tree, sd.right,
                                     Sub(ones1, sd.ones_in_left_tree), TRUE)
              IN [h |-> rebalance_after_deletion(Ev(h1, "merge_into_left"), node,
                                                 deletion_successful),
                  result |-> deletion_successful]
            ELSE
              LET h1 == insert_at_node(st.h, sd.right, 0,
                                       IF st.result = "DELETED_ONE" THEN 1 ELSE 0)
              IN [h |-> Ev([h1 EXCEPT
                              !.nodes[node].num_bits_left_tree = Sub(@, 1),
                              !.nodes[node].ones_in_left_tree =
                                 IF st.result = "DELETED_ONE" THEN Sub(@, 1) ELSE @],
                           "steal_from_left"),
                  result |-> deletion_successful]
       ELSE r
  ELSE \* index in left subtree
    LET r == delete_at_node(h, h.nodes[node].left, i,
                            h.nodes[node].num_bits_left_tree,
                            h.nodes[node].ones_in_left_tree, allow_underflow)
        deletion_successful == r.result
        h0 == IF deletion_successful = "DELETED_ONE"
              THEN [r.h EXCEPT !.nodes[node].ones_in_left_tree = Sub(@, 1)]
              ELSE r.h
        nd == h0.nodes[node]
    IN IF deletion_successful = "UNDERFLOW" THEN r
       ELSE IF nd.num_bits_left_tree = MinLeafSizeBlocks * BLOCK_SIZE
       THEN
         LET st == delete_at_node(h0, nd.right, 0,
                                  Sub(num_bits, nd.num_bits_left_tree), 0, FALSE)
             sd == st.h.nodes[node]
         IN IF st.result = "UNDERFLOW"
            THEN
              LET h1 == move_to_leaf(st.h, sd.right, 0, sd.left,
                                     sd.ones_in_left_tree, FALSE)
              IN [h |-> rebalance_after_deletion(Ev(h1, "merge_into_right"), node,
                                                 deletion_successful),
                  result |-> deletion_successful]
            ELSE
              LET h1 == insert_at_node(st.h, sd.left,
                                       Sub(sd.num_bits_left_tree, 1),
                                       IF st.result = "DELETED_ONE" THEN 1 ELSE 0)
              IN [h |-> Ev([h1 EXCEPT
                              !.nodes[node].ones_in_left_tree =
                                 IF st.result = "DELETED_ONE" THEN Add(@, 1) ELSE @],
                           "steal_from_right"),
                  result |-> deletion_successful]
       ELSE [h |-> [h0 EXCEPT !.nodes[node].num_bits_left_tree = Sub(@, 1)],
             result |-> deletion_successful]

(***************************************************************************)
(* Arena normal form: nodes are renumbered in preorder from the root, so   *)
(* that two heaps holding the same tree are the same state.                *)
(***************************************************************************)
RECURSIVE Preorder(_, _)
Preorder(ns, n) ==
  IF n = nullptr THEN <<>>
  ELSE <<n>> \o Preorder(ns, ns[n].left) \o Preorder(ns, ns[n].right)

Canon(h) ==
  LET order == Preorder(h.nodes, h.root)
      ren(n) == IF n = nullptr THEN nullptr
                ELSE CHOOSE k \in 1..Len(order) : order[k] = n
  IN [h EXCEPT
        !.root = ren(h.root),
        !.nodes = [k \in 1..Len(order) |->
                     [h.nodes[order[k]] EXCEPT !.parent = ren(@),
                                               !.left = ren(@),
                                               !.right = ren(@)]]]

(***************************************************************************)
(* DynamicBitVector: state and public operations.                          *)
(***************************************************************************)
VARIABLES
  nodes,         \* arena of Node
  root,          \* Node *root
  current_size,  \* SizeType current_size
  total_ones,    \* SizeType total_ones
  expected,      \* the plain list the tests compare against
  ev,            \* the internal steps taken by the last operation
  phase,         \* "free": any operation; "bp": tree operations; else the
                 \* deep workload's stage
  stree,         \* the pointer-based SimpleTree the tests compare against
  op,            \* the last tree operation and the children it started from
  leaf,          \* a SimpleBitVector with excess support, driven on its own
  run            \* run_bv: the input bits, the next query and the lines written

vars == <<nodes, root, current_size, total_ones, expected, ev, phase, stree, op, leaf, run>>

\* The object as a value: the arena, the members and the steps taken.
Heap == [nodes |-> nodes, root |-> root, current_size |-> current_size,
         total_ones |-> total_ones, ev |-> {}]

Store(h) ==
  LET c == Canon(h)
  IN /\ nodes' = c.nodes
     /\ root' = c.root
     /\ current_size' = c.current_size
     /\ total_ones' = c.total_ones
     /\ ev' = c.ev

\* DynamicBitVector(): root(new Node()), root->leaf_data = new Leaf(0)
DynamicBitVector ==
  [nodes |-> (1 :> [Node EXCEPT !.leaf_data = <<Leaf_new(0)>>]),
   root |-> 1, current_size |-> 0, total_ones |-> 0, ev |-> {}]

\* Mutant: a position past the end is taken for the end.
insert_clamped(h, i, value) ==
  Let(IF i <= h.current_size THEN i ELSE h.current_size, LAMBDA at_i :
    [Ev(insert_at_node(h, h.root, at_i, value), "insert") EXCEPT
       !.current_size = Add(@, 1),
       !.total_ones = IF value = 1 THEN Add(@, 1) ELSE @])

\* void insert(SizeType i, bool value)
insert(h, i, value) ==
  IF i <= h.current_size
  THEN [Ev(insert_at_node(h, h.root, i, value), "insert") EXCEPT
          !.current_size = Add(@, 1),
          !.total_ones = IF value = 1 THEN Add(@, 1) ELSE @]
  ELSE Ev(h, "insert_ignored")

\* Mutant: total_ones is left alone when a one is deleted.
delete_element_stale_ones(h, i) ==
  IF i < h.current_size
  THEN Let(delete_at_node(h, h.root, i, h.current_size, h.total_ones, TRUE),
           LAMBDA r : [Ev(r.h, "delete_element") EXCEPT !.current_size = Sub(@, 1)])
  ELSE Ev(h, "delete_ignored")

\* void delete_element(SizeType i)
delete_element(h, i) ==
  IF i < h.current_size
  THEN LET r == delete_at_node(h, h.root, i, h.current_size, h.total_ones, TRUE)
       IN [Ev(r.h, "delete_element") EXCEPT
             !.total_ones = IF r.result = "DELETED_ONE" THEN Sub(@, 1) ELSE @,
             !.current_size = Sub(@, 1)]
  ELSE Ev(h, "delete_ignored")

\* void push_back(bool value)
push_back(h, value) == insert(h, h.current_size, value)

\* void pop_back(): current_size - 1 in SizeType arithmetic
pop_back(h) == delete_element(h, Sub(h.current_size, 1))

\* void set(SizeType i, bool value)
set(h, i, value) ==
  LET r == set_bit(h, h.root, i, value)
  IN [Ev(r.h, "set") EXCEPT
        !.total_ones = IF r.change = "ONE_LESS_ONE" THEN Sub(@, 1)
                       ELSE IF r.change = "ONE_MORE_ONE" THEN Add(@, 1)
                       ELSE @]

\* void flip(SizeType i)
\* Mutant: total_ones is not updated.
flip_stale_total(h, i) == Ev(flip_bit(h, h.root, i).h, "flip")

flip(h, i) ==
  LET r == flip_bit(h, h.root, i)
  IN [Ev(r.h, "flip") EXCEPT
        !.total_ones = IF r.flipped_to_one THEN Add(@, 1) ELSE Sub(@, 1)]

\* Queries; rank and select give the set of values the call can return.
size(h) == h.current_size
num_ones(h) == h.total_ones
at(h, i) == access_bit(h, h.root, i)
\* Mutant: rank counts the other bit value.
rank_other_value(h, b, i) == rank_at_node(h, h.root, ~b, i, 0)
rank(h, b, i) == rank_at_node(h, h.root, b, i, 0)
select(h, b, i) == select_at_node(h, h.root, b, i, 0)

\* The plain list of the tests, put through the same operation.
InsertAt(seq, i, v) ==
  IF i <= Len(seq) THEN SubSeq(seq, 1, i) \o <<v>> \o SubSeq(seq, i + 1, Len(seq))
  ELSE seq
RemoveAt(seq, i) ==
  IF i < Len(seq) THEN SubSeq(seq, 1, i) \o SubSeq(seq, i + 2, Len(seq))
  ELSE seq

(***************************************************************************)
(* SimpleTree: the pointer-based tree.  A tree value is [root, nodes],     *)
(* nodes an arena of [parent, children].                                   *)
(***************************************************************************)
\* SimpleTree() : root(new Node())
SimpleTree ==
  [root |-> 1, nodes |-> (1 :> [parent |-> nullptr, children |-> <<>>])]

RECURSIVE SimpleTree_get_bp_representation(_, _)
RECURSIVE SimpleTree_children_bp(_, _)
SimpleTree_children_bp(t, children) ==
  IF children = <<>> THEN <<>>
  ELSE SimpleTree_get_bp_representation(t, Head(children))
       \o SimpleTree_children_bp(t, Tail(children))
SimpleTree_get_bp_representation(t, node) ==
  <<"(">> \o SimpleTree_children_bp(t, t.nodes[node].children) \o <<")">>

SimpleTree_i_th_child(t, node, i) == t.nodes[node].children[i]

SimpleTree_parent(t, node) == t.nodes[node].parent

RECURSIVE SimpleTree_subtree_size(_, _)
RECURSIVE SimpleTree_children_size(_, _)
SimpleTree_children_size(t, children) ==
  IF children = <<>> THEN 0
  ELSE SimpleTree_subtree_size(t, Head(children))
       + SimpleTree_children_size(t, Tail(children))
SimpleTree_subtree_size(t, node) ==
  1 + SimpleTree_children_size(t, t.nodes[node].children)

SimpleTree_delete_node(t, node) ==
  LET par == t.nodes[node].parent
      kids == t.nodes[node].children
      \* child->parent = node->parent
      n1 == [m \in DOMAIN t.nodes |->
               IF \E j \in 1..Len(kids) : kids[j] = m
               THEN [t.nodes[m] EXCEPT !.parent = par] ELSE t.nodes[m]]
      \* std::find / std::distance
      idx == (CHOOSE j \in 1..Len(n1[par].children) : n1[par].children[j] = node) - 1
      \* erase at idx, then insert the children at idx, idx + 1, ...
      n2 == [n1 EXCEPT ![par].children =
               SubSeq(@, 1, idx) \o kids \o SubSeq(@, idx + 2, Len(@))]
  IN [t EXCEPT !.nodes = [m \in (DOMAIN n2) \ {node} |-> n2[m]]]

\* The loop of insert_node: k times, move children[i - 1] of node under n.
RECURSIVE SimpleTree_adopt(_, _, _, _, _)
SimpleTree_adopt(ns, node, n, i, left) ==
  IF left = 0 THEN ns
  ELSE LET c == ns[node].children[i]
       IN SimpleTree_adopt(
            [ns EXCEPT ![c].parent = n,
                       ![n].children = Append(@, c),
                       ![node].children = SubSeq(@, 1, i - 1) \o SubSeq(@, i + 1, Len(@))],
            node, n, i, left - 1)

SimpleTree_insert_node(t, node, i, k) ==
  LET n == NewId(t.nodes)
      n1 == (n :> [parent |-> node, children |-> <<>>]) @@ t.nodes
      n2 == SimpleTree_adopt(n1, node, n, i, k)
  IN [t EXCEPT !.nodes = [n2 EXCEPT ![node].children =
                            SubSeq(@, 1, i - 1) \o <<n>> \o SubSeq(@, i, Len(@))]]

\* Normal form: nodes numbered in preorder, so node n of the SimpleTree is
\* the n-th opening parenthesis.
RECURSIVE TreePreorder(_, _)
RECURSIVE TreePreorderAll(_, _)
TreePreorderAll(t, children) ==
  IF children = <<>> THEN <<>>
  ELSE TreePreorder(t, Head(children)) \o TreePreorderAll(t, Tail(children))
TreePreorder(t, node) == <<node>> \o TreePreorderAll(t, t.nodes[node].children)

CanonTree(t) ==
  LET order == TreePreorder(t, t.root)
      ren(n) == IF n = nullptr THEN nullptr
                ELSE CHOOSE k \in 1..Len(order) : order[k] = n
  IN [root |-> ren(t.root),
      nodes |-> [k \in 1..Len(order) |->
                   [parent |-> ren(t.nodes[order[k]].parent),
                    children |-> [j \in 1..Len(t.nodes[order[k]].children) |->
                                    ren(t.nodes[order[k]].children[j])]]]]

(***************************************************************************)
(* DynamicBPTree over the dynamic bit vector.                              *)
(***************************************************************************)
LEFT == 0
RIGHT == 1

(***************************************************************************)
(* SimpleBitVector with ExcessQuerySupport: a leaf that also carries the   *)
(* MinExcessBlockData chunk_array, one [block_excess, min_excess_in_block] *)
(* entry per chunk of BLOCKS_PER_CHUNK blocks.                             *)
(***************************************************************************)
\* BlocksPerChunk of SimpleExcessBitVector<uint16_t, int16_t, 2>.
BLOCKS_PER_CHUNK == 2
\* Largest excess leaf, in bits.
MaxLeafBits == 9

BITS_PER_CHUNK == BLOCKS_PER_CHUNK * BLOCK_SIZE

\* A default-constructed MinExcessNodeData.
MinExcessNodeData == [block_excess |-> 0, min_excess_in_block |-> 2]

\* The body of the inner loop of compute_block_excess for one bit.
excess_step(excess, bit) ==
  LET e == IF bit = LEFT THEN excess.block_excess + 1 ELSE excess.block_excess - 1
  IN [block_excess |-> e,
      min_excess_in_block |->
        IF e < excess.min_excess_in_block THEN e ELSE excess.min_excess_in_block]

\* The two loops of compute_block_excess, at block b and bit i of it.
RECURSIVE compute_block_excess_loop(_, _, _, _, _, _)
compute_block_excess_loop(blocks, b, end_block, i, remaining_bits, excess) ==
  IF ~(b < end_block /\ b < Len(blocks)) THEN excess
  ELSE IF i < BLOCK_SIZE /\ i < remaining_bits
  THEN compute_block_excess_loop(
         blocks, b, end_block, i + 1, remaining_bits,
         excess_step(excess, Leaf_access_bit(blocks[b + 1], i)))
  ELSE compute_block_excess_loop(
         blocks, b + 1, end_block, 0, Sub(remaining_bits, BLOCK_SIZE), excess)

\* Mutant: the minimum is never lowered.
compute_block_excess_no_min(blocks, chunk_idx, current_size_bits) ==
  [compute_block_excess_loop(
     blocks, chunk_idx * BLOCKS_PER_CHUNK, (chunk_idx + 1) * BLOCKS_PER_CHUNK, 0,
     Sub(current_size_bits, chunk_idx * BLOCKS_PER_CHUNK * BLOCK_SIZE),
     MinExcessNodeData) EXCEPT !.min_excess_in_block = 2]

compute_block_excess(blocks, chunk_idx, current_size_bits) ==
  compute_block_excess_loop(
    blocks, chunk_idx * BLOCKS_PER_CHUNK, (chunk_idx + 1) * BLOCKS_PER_CHUNK, 0,
    Sub(current_size_bits, chunk_idx * BLOCKS_PER_CHUNK * BLOCK_SIZE),
    MinExcessNodeData)

\* MinExcessBlockData::compute(): the fold of the chunks from chunk c on.
RECURSIVE compute_loop(_, _, _)
compute_loop(chunk_array, c, excess_data) ==
  IF c >= Len(chunk_array) THEN excess_data
  ELSE compute_loop(chunk_array, c + 1,
         [block_excess |->
            excess_data.block_excess + chunk_array[c + 1].block_excess,
          min_excess_in_block |->
            IF excess_data.block_excess + chunk_array[c + 1].min_excess_in_block
                 < excess_data.min_excess_in_block
            THEN excess_data.block_excess + chunk_array[c + 1].min_excess_in_block
            ELSE excess_data.min_excess_in_block])

compute(l) == compute_loop(l.chunk_array, 0, MinExcessNodeData)

update_excess_chunk(l, i) ==
  [l EXCEPT !.chunk_array[(i \div BITS_PER_CHUNK) + 1] =
              compute_block_excess(l.blocks, i \div BITS_PER_CHUNK, Leaf_size(l))]

\* SimpleBitVector(initial_size) with the chunk array filled for zero bits.
ExLeaf_new(initial_size) ==
  LET n == IF initial_size = 0 THEN 0 ELSE get_required_blocks(initial_size)
      chunks == IF n = 0 THEN 0 ELSE (n - 1) \div BLOCKS_PER_CHUNK + 1
  IN [current_size_bits |-> initial_size,
      blocks |-> [b \in 1..n |-> 0],
      has_buffer |-> n > 0,
      chunk_array |->
        [c \in 1..chunks |->
           [block_excess |->
              IF Sub(initial_size, (c - 1) * BITS_PER_CHUNK) < BITS_PER_CHUNK
              THEN Sub(initial_size, (c - 1) * BITS_PER_CHUNK)
              ELSE BITS_PER_CHUNK,
            min_excess_in_block |-> 1]]]

ExLeaf_set_true(l, i) == update_excess_chunk(Leaf_set_true(l, i), i)

ExLeaf_reset(l, i) == update_excess_chunk(Leaf_reset(l, i), i)

ExLeaf_set(l, i, value) ==
  IF value = 1 THEN ExLeaf_set_true(l, i) ELSE ExLeaf_reset(l, i)

ExLeaf_flip(l, i) == update_excess_chunk(Leaf_flip(l, i), i)

\* The loop "shift all other blocks after it" of insert.
RECURSIVE ExLeaf_insert_shift(_, _, _)
ExLeaf_insert_shift(l, block, last_block_value) ==
  IF block >= size_in_blocks(l) THEN l
  ELSE ExLeaf_insert_shift(
         ExLeaf_set([l EXCEPT !.blocks[block + 1] = (@ * 2) % BLOCK_MOD],
                    block * BLOCK_SIZE, last_block_value),
         block + 1, Leaf_get(l, block * BLOCK_SIZE + BLOCK_SIZE - 1))

\* insert up to "current_size_bits++": a new block, and a new chunk when
\* the chunks are full.
ExLeaf_grow(l) ==
  IF l.current_size_bits = BLOCK_SIZE * size_in_blocks(l)
  THEN [l EXCEPT !.chunk_array =
                   IF Len(@) * BLOCKS_PER_CHUNK = size_in_blocks(l)
                   THEN Append(@, MinExcessNodeData) ELSE @,
                 !.blocks = Append(@, 0),
                 !.has_buffer = TRUE,
                 !.current_size_bits = @ + 1]
  ELSE [l EXCEPT !.current_size_bits = @ + 1]

\* The shift of the bits right of block_pos inside the block of i.
ExLeaf_shift_in_block(l, i) ==
  LET block_num == i \div BLOCK_SIZE
      block_pos == i % BLOCK_SIZE
      old == l.blocks[block_num + 1]
      values == (((old \div (2 ^ block_pos)) * (2 ^ block_pos)) * 2) % BLOCK_MOD
  IN IF (block_pos + 1) % BLOCK_SIZE # 0
     THEN [l EXCEPT !.blocks[block_num + 1] =
             (old % (2 ^ (block_pos + 1)))
             + (values \div (2 ^ (block_pos + 1))) * (2 ^ (block_pos + 1))]
     ELSE l

ExLeaf_insert(l, i, value) ==
  Let(ExLeaf_grow(l), LAMBDA l1 :
    IF l.current_size_bits = i
    THEN ExLeaf_set(l1, i, value)
    ELSE ExLeaf_insert_shift(
           ExLeaf_set(ExLeaf_shift_in_block(l1, i), i, value),
           (i \div BLOCK_SIZE) + 1,
           Leaf_get(l1, (i \div BLOCK_SIZE) * BLOCK_SIZE + BLOCK_SIZE - 1)))

\* The loop "shift all other blocks after it" of delete_element; returns
\* the leaf and the final last_block_pos.
RECURSIVE ExLeaf_delete_shift(_, _, _)
ExLeaf_delete_shift(l, block, last_block_pos) ==
  IF block >= size_in_blocks(l) THEN [leaf |-> l, last_block_pos |-> last_block_pos]
  ELSE ExLeaf_delete_shift(
         [ExLeaf_set(l, last_block_pos, Leaf_get(l, block * BLOCK_SIZE))
            EXCEPT !.blocks[block + 1] = @ \div 2],
         block + 1, last_block_pos + BLOCK_SIZE)

\* The shift of the bits left of block_pos inside the block of i.
ExLeaf_unshift_in_block(l, i) ==
  LET block_num == i \div BLOCK_SIZE
      block_pos == i % BLOCK_SIZE
      old == l.blocks[block_num + 1]
      values == ((old \div (2 ^ (block_pos + 1))) * (2 ^ (block_pos + 1))) \div 2
  IN [l EXCEPT !.blocks[block_num + 1] =
        (old % (2 ^ block_pos)) + (values \div (2 ^ block_pos)) * (2 ^ block_pos)]

\* "Delete empty blocks": the last block, and the last chunk with it.
ExLeaf_shrink(l) ==
  IF Len(l.blocks) > 0 /\ l.current_size_bits = BLOCK_SIZE * (Len(l.blocks) - 1)
  THEN [l EXCEPT !.blocks = SubSeq(@, 1, Len(@) - 1),
                 !.chunk_array =
                   IF (Len(@) - 1) * BLOCKS_PER_CHUNK = Len(l.blocks) - 1
                   THEN SubSeq(@, 1, Len(@) - 1) ELSE @]
  ELSE l

ExLeaf_delete_element(l, i) ==
  Let([l EXCEPT !.current_size_bits = @ - 1], LAMBDA l1 :
    IF i = l1.current_size_bits
    THEN ExLeaf_shrink(ExLeaf_reset(l1, i))
    ELSE Let(ExLeaf_delete_shift(ExLeaf_unshift_in_block(l1, i),
                                 (i \div BLOCK_SIZE) + 1,
                                 (i \div BLOCK_SIZE) * BLOCK_SIZE + BLOCK_SIZE - 1),
             LAMBDA r : ExLeaf_shrink(ExLeaf_reset(r.leaf, r.last_block_pos))))

ExLeaf_push_back(l, value) == ExLeaf_insert(l, l.current_size_bits, value)

ExLeaf_pop_back(l) == ExLeaf_delete_element(l, l.current_size_bits - 1)

\* split() with the chunks: this leaf keeps the first moved_chunks chunks,
\* the others overwrite the constructed chunks of the new leaf.
ExLeaf_split(l) ==
  LET moved_chunks == (size_in_blocks(l) \div 2) \div BLOCKS_PER_CHUNK
      previous_num_chunks == Len(l.chunk_array)
      halves == split(l)
      out0 == ExLeaf_new(halves.split_out_bv.current_size_bits)
  IN [this |-> [halves.this EXCEPT !.chunk_array = SubSeq(@, 1, moved_chunks)],
      split_out_bv |->
        [out0 EXCEPT !.blocks = halves.split_out_bv.blocks,
                     !.chunk_array =
                       [c \in 1..Len(@) |->
                          IF c + moved_chunks <= previous_num_chunks
                          THEN l.chunk_array[c + moved_chunks] ELSE @[c]]]]

\* Mutant: the build with NDEBUG, in which split() has no check.
ExLeaf_split_ndebug(l) ==
  [thrown |-> "none", this |-> ExLeaf_split(l).this,
   returned |-> <<ExLeaf_split(l).split_out_bv>>]

\* split() of the debug build: once the blocks are moved and the size is
\* updated, it throws when moved_blocks is not a multiple of
\* BLOCKS_PER_CHUNK, the chunk array not yet touched and nothing returned.
ExLeaf_split_debug(l) ==
  IF (size_in_blocks(l) \div 2) % BLOCKS_PER_CHUNK # 0
  THEN [thrown |-> "std::invalid_argument",
        this |-> [l EXCEPT !.blocks = split(l).this.blocks,
                           !.current_size_bits = split(l).this.current_size_bits],
        returned |-> <<>>]
  ELSE [thrown |-> "none", this |-> ExLeaf_split(l).this,
        returned |-> <<ExLeaf_split(l).split_out_bv>>]

\* copy_to_back with the chunks: the aligned branch pushes the chunks of
\* other by index; the non-aligned branch leaves the chunk array alone.
ExLeaf_copy_to_back(l, other) ==
  IF size_in_blocks(other) = 0 THEN l
  ELSE
    LET required_blocks ==
          get_required_blocks(l.current_size_bits + Leaf_size(other))
        required_chunks == (required_blocks - 1) \div BLOCKS_PER_CHUNK + 1
        old_num_chunks == Len(l.chunk_array)
    IN [copy_to_back(l, other) EXCEPT !.chunk_array =
          IF l.current_size_bits % BLOCK_SIZE # 0 THEN @
          ELSE @ \o [c \in 1..(required_chunks - old_num_chunks) |->
                       other.chunk_array[c]]]

\* copy_to_back of the debug build: with other not empty and this leaf's
\* length not a multiple of BLOCK_SIZE it throws before changing anything.
ExLeaf_copy_to_back_debug(l, other) ==
  IF size_in_blocks(other) # 0 /\ l.current_size_bits % BLOCK_SIZE # 0
  THEN [thrown |-> "std::invalid_argument", this |-> l]
  ELSE [thrown |-> "none", this |-> ExLeaf_copy_to_back(l, other)]

\* The loop of forward_search and backward_search that scans bits i, i + step,
\* ... while they lie in [lo, hi); LEFT counts up forwards and down backwards.
RECURSIVE ExLeaf_scan(_, _, _, _, _, _, _)
ExLeaf_scan(l, i, lo, hi, step, current_excess, d) ==
  IF ~(i >= lo /\ i < hi) THEN [position |-> 0, excess |-> current_excess, found |-> FALSE]
  ELSE LET e == IF Leaf_get(l, i) = LEFT
                THEN current_excess + step ELSE current_excess - step
       IN IF e = d THEN [position |-> i, excess |-> d, found |-> TRUE]
          ELSE ExLeaf_scan(l, i + step, lo, hi, step, e, d)

Min(x, y) == IF x < y THEN x ELSE y

\* "use whole chunk information" of forward_search: the chunk to scan and
\* the excess before it.
RECURSIVE ExLeaf_forward_chunks(_, _, _, _)
ExLeaf_forward_chunks(l, c, current_excess, d) ==
  IF c >= Len(l.chunk_array) THEN [c |-> c, excess |-> current_excess]
  ELSE IF current_excess + l.chunk_array[c + 1].min_excess_in_block <= d
  THEN [c |-> c, excess |-> current_excess]
  ELSE ExLeaf_forward_chunks(l, c + 1,
         current_excess + l.chunk_array[c + 1].block_excess, d)

\* The search from chunk c on, with the excess gathered before it.
ExLeaf_forward_rest(l, c, current_excess, d) ==
  Let(ExLeaf_forward_chunks(l, c, current_excess, d), LAMBDA k :
    ExLeaf_scan(l, k.c * BITS_PER_CHUNK, 0,
                Min((k.c + 1) * BITS_PER_CHUNK, Leaf_size(l)), 1, k.excess, d))

ExLeaf_forward_search(l, pos, d) ==
  LET chunk_idx == pos \div BITS_PER_CHUNK
      chunk_pos == pos % BITS_PER_CHUNK
  IN IF chunk_pos # 0
     THEN Let(ExLeaf_scan(l, pos, 0,
                          Min((chunk_idx + 1) * BITS_PER_CHUNK, Leaf_size(l)), 1, 0, d),
              LAMBDA r : IF r.found THEN r
                         ELSE ExLeaf_forward_rest(l, chunk_idx + 1, r.excess, d))
     ELSE ExLeaf_forward_rest(l, chunk_idx, 0, d)

\* "use whole chunk information" of backward_search: the chunk to scan and
\* the excess after it, or the result when a chunk start has excess d.
RECURSIVE ExLeaf_backward_chunks(_, _, _, _)
ExLeaf_backward_chunks(l, c, current_excess, d) ==
  IF c < 0 THEN [c |-> c, excess |-> current_excess, found |-> FALSE]
  ELSE IF current_excess - l.chunk_array[c + 1].block_excess
            + l.chunk_array[c + 1].min_excess_in_block <= d
  THEN [c |-> c, excess |-> current_excess, found |-> FALSE]
  ELSE IF current_excess - l.chunk_array[c + 1].block_excess = d
  THEN [c |-> c, excess |-> d, found |-> TRUE]
  ELSE ExLeaf_backward_chunks(l, c - 1,
         current_excess - l.chunk_array[c + 1].block_excess, d)

ExLeaf_backward_rest(l, c, current_excess, d) ==
  Let(ExLeaf_backward_chunks(l, c, current_excess, d), LAMBDA k :
    IF k.found THEN [position |-> k.c * BITS_PER_CHUNK, excess |-> d, found |-> TRUE]
    ELSE ExLeaf_scan(l, (k.c + 1) * BITS_PER_CHUNK - 1,
                     IF k.c < 0 THEN 0 ELSE k.c * BITS_PER_CHUNK,
                     Leaf_size(l) + BITS_PER_CHUNK, -1, k.excess, d))

ExLeaf_backward_search(l, pos, d) ==
  Let(ExLeaf_scan(l, pos - 1, (pos \div BITS_PER_CHUNK) * BITS_PER_CHUNK,
                  Leaf_size(l) + BITS_PER_CHUNK, -1, 0, d),
      LAMBDA r : IF r.found THEN r
                 ELSE ExLeaf_backward_rest(l, (pos \div BITS_PER_CHUNK) - 1, r.excess, d))

\* Excess search on the bit vector of the tree: the smallest position
\* p >= pos at which the excess counted from pos (an opening parenthesis
\* +1, a closing one -1) is d.
RECURSIVE forward_search_from(_, _, _, _)
forward_search_from(h, i, current_excess, d) ==
  IF i >= size(h) THEN [position |-> 0, excess |-> current_excess, found |-> FALSE]
  ELSE LET e == current_excess + (IF at(h, i) = LEFT THEN 1 ELSE -1)
       IN IF e = d THEN [position |-> i, excess |-> d, found |-> TRUE]
          ELSE forward_search_from(h, i + 1, e, d)

forward_search(h, pos, d) == forward_search_from(h, pos, 0, d)

\* Backward: from pos - 1 down to 0, an opening parenthesis -1, a closing
\* one +1.
RECURSIVE backward_search_from(_, _, _, _)
backward_search_from(h, i, current_excess, d) ==
  IF i < 0 THEN [position |-> 0, excess |-> current_excess, found |-> FALSE]
  ELSE LET e == current_excess + (IF at(h, i) = LEFT THEN -1 ELSE 1)
       IN IF e = d THEN [position |-> i, excess |-> d, found |-> TRUE]
          ELSE backward_search_from(h, i - 1, e, d)

backward_search(h, pos, d) == backward_search_from(h, pos - 1, 0, d)

\* DynamicBitVector(const SimpleBitVector &): one root leaf holding bv.
DynamicBitVector_from(bv) ==
  [nodes |-> (1 :> [Node EXCEPT !.leaf_data = <<bv>>]),
   root |-> 1, current_size |-> Leaf_size(bv),
   total_ones |-> Leaf_num_ones(bv), ev |-> {}]

\* DynamicBPTree(): the tree with only the root node.
DynamicBPTree ==
  DynamicBitVector_from(Leaf_set(Leaf_set(Leaf_new(2), 0, LEFT), 1, RIGHT))

\* while (child_idx != i) current_child = forward_search(...).position + 1
RECURSIVE advance_children(_, _, _, _)
advance_children(h, child_idx, current_child, target) ==
  IF child_idx = target THEN current_child
  ELSE advance_children(h, Add(child_idx, 1),
                        Add(forward_search(h, current_child, 0).position, 1),
                        target)

i_th_child(h, node, i) == advance_children(h, 1, Add(node, 1), i)

\* Mutant: the search target is -2.
parent_minus_two(h, node) == backward_search(h, node, -2).position

\* Mutant: the scan starts at node itself instead of at node - 1.
parent_inclusive(h, node) == backward_search(h, Add(node, 1), -1).position

parent(h, node) == backward_search(h, node, -1).position

\* Mutant: the closing parenthesis itself is not counted.
subtree_size_open_interval(h, node) ==
  Sub(forward_search(h, node, 0).position, node) \div 2

subtree_size(h, node) ==
  Add(Sub(forward_search(h, node, 0).position, node), 1) \div 2

\* Mutant: the opening parenthesis is deleted first.
delete_node_open_first(h, node) ==
  LET right_parenthesis == forward_search(h, node, 0).position
  IN delete_element(delete_element(h, node), right_parenthesis)

delete_node(h, node) ==
  LET right_parenthesis == forward_search(h, node, 0).position
  IN delete_element(delete_element(h, right_parenthesis), node)

\* Mutant: the closing parenthesis goes in one position early.
insert_node_close_early(h, node, i, k) ==
  LET insert_pos == advance_children(h, 1, Add(node, 1), i)
      current_child == advance_children(h, i, insert_pos, Add(i, k))
  IN insert(insert(h, insert_pos, LEFT), current_child, RIGHT)

insert_node(h, node, i, k) ==
  LET insert_pos == advance_children(h, 1, Add(node, 1), i)
      current_child == advance_children(h, i, insert_pos, Add(i, k))
  IN insert(insert(h, insert_pos, LEFT), Add(current_child, 1), RIGHT)

get_bp_representation(h) ==
  [j \in 1..size(h) |-> IF at(h, j - 1) = LEFT THEN "(" ELSE ")"]

\* No query file is being processed.
NoRun == [input |-> <<>>, pc |-> 0, output |-> <<>>]

NoOp == [name |-> "none", v |-> 0, i |-> 0, k |-> 0, before |-> <<>>, inner |-> <<>>]

Init ==
  /\ nodes = DynamicBitVector.nodes
  /\ root = DynamicBitVector.root
  /\ current_size = DynamicBitVector.current_size
  /\ total_ones = DynamicBitVector.total_ones
  /\ expected = <<>>
  /\ ev = {}
  /\ phase \in {"free", "grow_front", "grow_middle"}
  /\ stree = SimpleTree
  /\ op = NoOp
  /\ leaf = ExLeaf_new(0)
  /\ run = NoRun

(***************************************************************************)
(* Actions.                                                                *)
(***************************************************************************)
Insert ==
  /\ phase = "free"
  /\ current_size < MaxFull
  /\ \E i \in 0..(current_size + 1), value \in Bit :
       /\ Store(insert(Heap, i, value))
       /\ expected' = InsertAt(expected, i, value)
  /\ UNCHANGED <<phase, stree, op, leaf, run>>

Delete ==
  /\ phase = "free"
  /\ \E i \in 0..current_size :
       /\ Store(delete_element(Heap, i))
       /\ expected' = RemoveAt(expected, i)
  /\ UNCHANGED <<phase, stree, op, leaf, run>>

Set ==
  /\ phase = "free"
  /\ \E i \in 0..(current_size - 1), value \in Bit :
       /\ Store(set(Heap, i, value))
       /\ expected' = [expected EXCEPT ![i + 1] = value]
  /\ UNCHANGED <<phase, stree, op, leaf, run>>

Flip ==
  /\ phase = "free"
  /\ \E i \in 0..(current_size - 1) :
       /\ Store(flip(Heap, i))
       /\ expected' = [expected EXCEPT ![i + 1] = 1 - @]
  /\ UNCHANGED <<phase, stree, op, leaf, run>>

\* Deep workload: DeepN insertions at the front or in the middle, then
\* deletions at either end.
Grow ==
  /\ phase \in {"grow_front", "grow_middle"}
  /\ current_size < DeepN
  /\ LET i == IF phase = "grow_front" THEN 0 ELSE current_size \div 2
     IN /\ Store(insert(Heap, i, current_size % 2))
        /\ expected' = InsertAt(expected, i, current_size % 2)
  /\ UNCHANGED <<phase, stree, op, leaf, run>>

Shrink ==
  /\ \/ phase \in {"grow_front", "grow_middle"} /\ current_size = DeepN
     \/ phase \in {"shrink_front", "shrink_middle"}
  /\ current_size > 0
  /\ \E i \in {0, current_size - 1} :
       /\ Store(delete_element(Heap, i))
       /\ expected' = RemoveAt(expected, i)
  /\ phase' = IF phase \in {"grow_front", "shrink_front"}
              THEN "shrink_front" ELSE "shrink_middle"
  /\ UNCHANGED <<stree, op, leaf, run>>

Next == Insert \/ Delete \/ Set \/ Flip \/ Grow \/ Shrink

Spec == Init /\ [][Next]_vars

(***************************************************************************)
(* The tree driven beside the SimpleTree, as the tests do.                 *)
(***************************************************************************)
TreeBits(h) == [j \in 1..size(h) |-> at(h, j - 1)]

\* The nodes of the tree: the positions of the opening parentheses.
OpenPositions(h) == {p \in 0..(size(h) - 1) : at(h, p) = LEFT}

\* The preorder number of the node at position v.
NodeOf(h, v) == Cardinality({p \in 0..v : at(h, p) = LEFT})

\* The parenthesis strings of the consecutive subtrees starting at c.
RECURSIVE SpansFrom(_, _)
SpansFrom(h, c) ==
  IF c >= size(h) \/ at(h, c) # LEFT THEN <<>>
  ELSE LET r == forward_search(h, c, 0)
       IN IF ~r.found THEN <<>>
          ELSE <<[j \in 1..(r.position - c + 1) |-> at(h, c + j - 1)]>>
               \o SpansFrom(h, r.position + 1)

\* The subtrees of the children of node v, in order.
ChildSpans(h, v) == SpansFrom(h, v + 1)

BitsOfTree(t) ==
  LET str == SimpleTree_get_bp_representation(t, t.root)
  IN [j \in 1..Len(str) |-> IF str[j] = "(" THEN LEFT ELSE RIGHT]

InitBP ==
  /\ nodes = DynamicBPTree.nodes
  /\ root = DynamicBPTree.root
  /\ current_size = DynamicBPTree.current_size
  /\ total_ones = DynamicBPTree.total_ones
  /\ expected = BitsOfTree(SimpleTree)
  /\ ev = {}
  /\ phase = "bp"
  /\ stree = SimpleTree
  /\ op = NoOp
  /\ leaf = ExLeaf_new(0)
  /\ run = NoRun

InsertNode ==
  /\ phase = "bp"
  /\ Cardinality(DOMAIN stree.nodes) < MaxNodes
  /\ \E v \in OpenPositions(Heap) :
       LET n == NodeOf(Heap, v)
           deg == Len(stree.nodes[n].children)
       IN \E i \in 1..(deg + 1) : \E k \in 0..(deg + 1 - i) :
            LET t == CanonTree(SimpleTree_insert_node(stree, n, i, k))
            IN /\ Store(insert_node(Heap, v, i, k))
               /\ stree' = t
               /\ expected' = BitsOfTree(t)
               /\ op' = [name |-> "insert_node", v |-> v, i |-> i, k |-> k,
                         before |-> ChildSpans(Heap, v), inner |-> <<>>]
  /\ UNCHANGED <<phase, leaf, run>>

DeleteNode ==
  /\ phase = "bp"
  /\ \E v \in OpenPositions(Heap) \ {0} :
       LET n == NodeOf(Heap, v)
           par == SimpleTree_parent(stree, n)
           i == CHOOSE j \in 1..Len(stree.nodes[par].children) :
                  SimpleTree_i_th_child(stree, par, j) = n
           t == CanonTree(SimpleTree_delete_node(stree, n))
       IN /\ Store(delete_node(Heap, v))
          /\ stree' = t
          /\ expected' = BitsOfTree(t)
          /\ op' = [name |-> "delete_node", v |-> parent(Heap, v), i |-> i, k |-> 0,
                    before |-> ChildSpans(Heap, parent(Heap, v)),
                    inner |-> ChildSpans(Heap, v)]
  /\ UNCHANGED <<phase, leaf, run>>

NextBP == InsertNode \/ DeleteNode

SpecBP == InitBP /\ [][NextBP]_vars

(***************************************************************************)
(* The excess leaf driven on its own, beside the plain list of its bits.   *)
(***************************************************************************)
\* Largest leaf appended by copy_to_back, in bits.
MaxOtherBits == 2

BitSeqs(n) == UNION {[1..k -> Bit] : k \in 0..n}

\* The leaf holding bits, built as the tests build it: constructed with
\* its length, then every one set.
RECURSIVE ExLeaf_fill(_, _, _)
ExLeaf_fill(l, bits, i) ==
  IF i >= Len(bits) THEN l
  ELSE ExLeaf_fill(IF bits[i + 1] = 1 THEN ExLeaf_set_true(l, i) ELSE l, bits, i + 1)

ExLeaf_of(bits) == ExLeaf_fill(ExLeaf_new(Len(bits)), bits, 0)

InitLeaf ==
  /\ nodes = DynamicBitVector.nodes
  /\ root = DynamicBitVector.root
  /\ current_size = DynamicBitVector.current_size
  /\ total_ones = DynamicBitVector.total_ones
  /\ ev = {}
  /\ phase = "leaf"
  /\ stree = SimpleTree
  /\ op = NoOp
  /\ run = NoRun
  /\ \E n \in 0..MaxOtherBits :
       /\ leaf = ExLeaf_new(n)
       /\ expected = [k \in 1..n |-> 0]

LeafFrame == UNCHANGED <<nodes, root, current_size, total_ones, ev, phase, stree, op, run>>

LeafSet ==
  /\ \E i \in 0..(Leaf_size(leaf) - 1), value \in Bit :
       /\ leaf' = ExLeaf_set(leaf, i, value)
       /\ expected' = [expected EXCEPT ![i + 1] = value]
  /\ LeafFrame

LeafFlip ==
  /\ \E i \in 0..(Leaf_size(leaf) - 1) :
       /\ leaf' = ExLeaf_flip(leaf, i)
       /\ expected' = [expected EXCEPT ![i + 1] = 1 - @]
  /\ LeafFrame

LeafInsert ==
  /\ Leaf_size(leaf) < MaxLeafBits
  /\ \E i \in 0..Leaf_size(leaf), value \in Bit :
       /\ leaf' = ExLeaf_insert(leaf, i, value)
       /\ expected' = InsertAt(expected, i, value)
  /\ LeafFrame

LeafDelete ==
  /\ \E i \in 0..(Leaf_size(leaf) - 1) :
       /\ leaf' = ExLeaf_delete_element(leaf, i)
       /\ expected' = RemoveAt(expected, i)
  /\ LeafFrame

LeafPushBack ==
  /\ Leaf_size(leaf) < MaxLeafBits
  /\ \E value \in Bit :
       /\ leaf' = ExLeaf_push_back(leaf, value)
       /\ expected' = Append(expected, value)
  /\ LeafFrame

LeafPopBack ==
  /\ Leaf_size(leaf) > 0
  /\ leaf' = ExLeaf_pop_back(leaf)
  /\ expected' = SubSeq(expected, 1, Len(expected) - 1)
  /\ LeafFrame

\* split() under its precondition; either half is followed.
LeafSplit ==
  /\ (size_in_blocks(leaf) \div 2) % BLOCKS_PER_CHUNK = 0
  /\ \E keep \in BOOLEAN :
       LET halves == ExLeaf_split(leaf)
           kept == (size_in_blocks(leaf) \div 2) * BLOCK_SIZE
       IN /\ leaf' = IF keep THEN halves.this ELSE halves.split_out_bv
          /\ expected' = IF keep THEN SubSeq(expected, 1, kept)
                         ELSE SubSeq(expected, kept + 1, Len(expected))
  /\ LeafFrame

\* copy_to_back of a leaf built from its bits, this leaf being block-aligned.
LeafCopyToBack ==
  /\ Leaf_size(leaf) % BLOCK_SIZE = 0
  /\ \E bits \in BitSeqs(MaxOtherBits) :
       /\ Leaf_size(leaf) + Len(bits) <= MaxLeafBits
       /\ leaf' = ExLeaf_copy_to_back(leaf, ExLeaf_of(bits))
       /\ expected' = expected \o bits
  /\ LeafFrame

NextLeaf ==
  \/ LeafSet \/ LeafFlip \/ LeafInsert \/ LeafDelete \/ LeafPushBack
  \/ LeafPopBack \/ LeafSplit \/ LeafCopyToBack

SpecLeaf == InitLeaf /\ [][NextLeaf]_vars

(***************************************************************************)
(* run_bv: the bit vector read from the input file, then the queries of    *)
(* the file one after the other, each rank and select writing a line.      *)
(***************************************************************************)
\* The bits and the queries of scenario S1.
S1_Bits == <<1, 0, 1, 1, 0>>

Query(type, first_param, second_param) ==
  [type |-> type, first_param |-> first_param, second_param |-> second_param]

S1_Queries ==
  << Query("RANK", 1, 5), Query("RANK", 0, 4), Query("SELECT", 1, 2),
     Query("INSERT", 2, 0), Query("FLIP", 0, 0), Query("DELETE", 4, 0),
     Query("SELECT", 0, 3) >>

\* instance.bv = SimpleBitVector(initial_size), then bv.set(i, bit) per line.
RECURSIVE parse_bv_input_bits(_, _, _)
parse_bv_input_bits(l, bits, i) ==
  IF i >= Len(bits) THEN l
  ELSE parse_bv_input_bits(Leaf_set(l, i, bits[i + 1]), bits, i + 1)

parse_bv_input(bits) == parse_bv_input_bits(Leaf_new(Len(bits)), bits, 0)

\* The run starts on any input of the scenario's length.
InitRun ==
  \E bits \in [1..Len(S1_Bits) -> Bit] :
    LET bv == DynamicBitVector_from(parse_bv_input(bits))
    IN /\ nodes = bv.nodes
       /\ root = bv.root
       /\ current_size = bv.current_size
       /\ total_ones = bv.total_ones
       /\ expected = bits
       /\ ev = {}
       /\ phase = "run"
       /\ stree = SimpleTree
       /\ op = NoOp
       /\ leaf = ExLeaf_new(0)
       /\ run = [input |-> bits, pc |-> 1, output |-> <<>>]

\* The query the loop of run_bv is at.
Pending(type) == run.pc <= Len(S1_Queries) /\ S1_Queries[run.pc].type = type

Emit(value) == run' = [run EXCEPT !.pc = @ + 1, !.output = Append(@, value)]

Silent == run' = [run EXCEPT !.pc = @ + 1]

RunInsert ==
  /\ Pending("INSERT")
  /\ LET q == S1_Queries[run.pc]
     IN /\ Store(insert(Heap, q.first_param, q.second_param))
        /\ expected' = InsertAt(expected, q.first_param, q.second_param)
  /\ Silent
  /\ UNCHANGED <<phase, stree, op, leaf>>

RunDelete ==
  /\ Pending("DELETE")
  /\ LET q == S1_Queries[run.pc]
     IN /\ Store(delete_element(Heap, q.first_param))
        /\ expected' = RemoveAt(expected, q.first_param)
  /\ Silent
  /\ UNCHANGED <<phase, stree, op, leaf>>

RunFlip ==
  /\ Pending("FLIP")
  /\ LET q == S1_Queries[run.pc]
     IN /\ Store(flip(Heap, q.first_param))
        /\ expected' = [expected EXCEPT ![q.first_param + 1] = 1 - @]
  /\ Silent
  /\ UNCHANGED <<phase, stree, op, leaf>>

RunRank ==
  /\ Pending("RANK")
  /\ LET q == S1_Queries[run.pc]
     IN \E r \in rank(Heap, q.first_param = 1, q.second_param) : Emit(r)
  /\ UNCHANGED <<nodes, root, current_size, total_ones, expected, ev, phase, stree, op, leaf>>

RunSelect ==
  /\ Pending("SELECT")
  /\ LET q == S1_Queries[run.pc]
     IN \E r \in select(Heap, q.first_param = 1, q.second_param) \ {NeverEnds} : Emit(r)
  /\ UNCHANGED <<nodes, root, current_size, total_ones, expected, ev, phase, stree, op, leaf>>

NextRun == RunInsert \/ RunDelete \/ RunFlip \/ RunRank \/ RunSelect

SpecRun == InitRun /\ [][NextRun]_vars

(***************************************************************************)
(* The plain SimpleBitVector driven on its own, beside the plain list of   *)
(* its bits, as simple_bitvector_test.cpp drives it.                       *)
(***************************************************************************)
\* Largest leaf constructed outright or appended by copy_to_back, in bits.
MaxSrcBits == 5

InitSimple ==
  /\ nodes = DynamicBitVector.nodes
  /\ root = DynamicBitVector.root
  /\ current_size = DynamicBitVector.current_size
  /\ total_ones = DynamicBitVector.total_ones
  /\ ev = {}
  /\ phase = "simple"
  /\ stree = SimpleTree
  /\ op = NoOp
  /\ run = NoRun
  /\ \E n \in 0..MaxSrcBits :
       /\ leaf = Leaf_new(n)
       /\ expected = [k \in 1..n |-> 0]

SimpleInsert ==
  /\ Leaf_size(leaf) < MaxLeafBits
  /\ \E i \in 0..Leaf_size(leaf), value \in Bit :
       /\ leaf' = Leaf_insert(leaf, i, value)
       /\ expected' = InsertAt(expected, i, value)
  /\ LeafFrame

SimpleDelete ==
  /\ \E i \in 0..(Leaf_size(leaf) - 1) :
       /\ leaf' = Leaf_delete_element(leaf, i)
       /\ expected' = RemoveAt(expected, i)
  /\ LeafFrame

SimplePushBack ==
  /\ Leaf_size(leaf) < MaxLeafBits
  /\ \E value \in Bit :
       /\ leaf' = Leaf_push_back(leaf, value)
       /\ expected' = Append(expected, value)
  /\ LeafFrame

SimplePopBack ==
  /\ Leaf_size(leaf) > 0
  /\ leaf' = Leaf_pop_back(leaf)
  /\ expected' = SubSeq(expected, 1, Len(expected) - 1)
  /\ LeafFrame

\* split(); either half is followed.
SimpleSplit ==
  /\ \E keep \in BOOLEAN :
       LET halves == split(leaf)
           kept == (size_in_blocks(leaf) \div 2) * BLOCK_SIZE
       IN /\ leaf' = IF keep THEN halves.this ELSE halves.split_out_bv
          /\ expected' = IF keep THEN SubSeq(expected, 1, kept)
                         ELSE SubSeq(expected, kept + 1, Len(expected))
  /\ LeafFrame

\* copy_to_back of a leaf constructed with its length and set bit by bit.
SimpleCopyToBack ==
  /\ \E bits \in BitSeqs(MaxSrcBits) :
       /\ Leaf_size(leaf) + Len(bits) <= MaxLeafBits
       /\ leaf' = copy_to_back(leaf, parse_bv_input(bits))
       /\ expected' = expected \o bits
  /\ LeafFrame

NextSimple ==
  \/ SimpleInsert \/ SimpleDelete \/ SimplePushBack \/ SimplePopBack
  \/ SimpleSplit \/ SimpleCopyToBack

SpecSimple == InitSimple /\ [][NextSimple]_vars

(***************************************************************************)
(* Whole-tree walks used to state the properties.                          *)
(***************************************************************************)
\* The leaf nodes under n, left to right.
RECURSIVE LeavesUnder(_)
LeavesUnder(n) ==
  IF n = nullptr THEN <<>>
  ELSE IF HasLeaf(Heap, n) THEN <<n>>
  ELSE LeavesUnder(nodes[n].left) \o LeavesUnder(nodes[n].right)

RECURSIVE BitsUnder(_)
BitsUnder(n) ==
  IF n = nullptr THEN 0
  ELSE IF HasLeaf(Heap, n) THEN Leaf_size(LeafOf(Heap, n))
  ELSE BitsUnder(nodes[n].left) + BitsUnder(nodes[n].right)

RECURSIVE OnesUnder(_)
OnesUnder(n) ==
  IF n = nullptr THEN 0
  ELSE IF HasLeaf(Heap, n) THEN Leaf_num_ones(LeafOf(Heap, n))
  ELSE OnesUnder(nodes[n].left) + OnesUnder(nodes[n].right)

InnerNodes == {n \in DOMAIN nodes : ~HasLeaf(Heap, n)}
LeafNodes == {n \in DOMAIN nodes : HasLeaf(Heap, n)}

\* Number of b-bits among the first i elements of seq.
Count(seq, b, i) == Cardinality({k \in 1..i : seq[k] = b})

\* Position (0-based) of the k-th b-bit of seq.
KthPosition(seq, b, k) ==
  CHOOSE p \in 0..(Len(seq) - 1) : seq[p + 1] = b /\ Count(seq, b, p + 1) = k

Did(e) == e \in ev

(***************************************************************************)
(* Properties of the dynamic bit vector.                                   *)
(***************************************************************************)

\* C1: after any sequence of insert / delete_element / flip / set on an
\* initially empty vector, operator[](i) equals the i-th element of the
\* plain list put through the same operations, for every i in [0, size).
C1_AccessRefinesList ==
  \A i \in 0..(Len(expected) - 1) : at(Heap, i) = expected[i + 1]

\* A deletion that merged two leaves, with ones left in a multi-leaf vector.
C1_Witness ==
  /\ Did("delete_element")
  /\ Did("merge_into_left") \/ Did("merge_into_right")
  /\ ~HasLeaf(Heap, root)
  /\ \E i \in 0..(Len(expected) - 1) : at(Heap, i) = 1 /\ expected[i + 1] = 1

\* C2: rank(b, i) equals the number of bits equal to b in positions [0, i),
\* for every b and every i in [0, N], N = size().
C2_RankCountsPrefix ==
  \A b \in BOOLEAN : \A i \in 0..current_size :
    rank(Heap, b, i) = {Count(expected, B2N(b), i)}

\* C3: select(b, k) is the position of the k-th bit equal to b, for every
\* k in [1, number of b-bits]; rank(b, select(b, k)) = k - 1 and the bit at
\* select(b, k) is b.
C3_SelectFindsKth ==
  \A b \in BOOLEAN : \A k \in 1..Count(expected, B2N(b), Len(expected)) :
    /\ select(Heap, b, k) = {KthPosition(expected, B2N(b), k)}
    /\ \A p \in select(Heap, b, k) :
         /\ p < current_size
         /\ at(Heap, p) = B2N(b)
         /\ rank(Heap, b, p) = {k - 1}

\* A select that descends into the right subtree of the root and lands
\* past the first position of the leaf it reaches.
C3_Witness ==
  /\ ~HasLeaf(Heap, root)
  /\ \E k \in 1..Count(expected, 1, Len(expected)) :
       \E p \in select(Heap, TRUE, k) :
         /\ p > nodes[root].num_bits_left_tree
         /\ k > nodes[root].ones_in_left_tree + 1

\* C4: after every public mutation, size() is the sum of the leaves' bit
\* lengths and num_ones() the sum of their popcounts, and both equal the
\* length and popcount of the plain list.
C4_SizeAndOnesAreLeafSums ==
  /\ size(Heap) = BitsUnder(root)
  /\ num_ones(Heap) = OnesUnder(root)
  /\ size(Heap) = Len(expected)
  /\ num_ones(Heap) = Count(expected, 1, Len(expected))

\* A flip to one in a vector of several leaves.
C4_Witness ==
  /\ Did("flip")
  /\ Len(LeavesUnder(root)) >= 2
  /\ num_ones(Heap) >= 3
  /\ num_ones(Heap) = OnesUnder(root)

\* C5: after every public mutation (splits, steals, merges and the
\* rotations of both fix-ups included) every internal node's
\* num_bits_left_tree is the number of bits in the leaves of its left
\* subtree and ones_in_left_tree the number of ones there.
C5_CountersMatchLeftSubtree ==
  \A v \in InnerNodes :
    /\ nodes[v].num_bits_left_tree = BitsUnder(nodes[v].left)
    /\ nodes[v].ones_in_left_tree = OnesUnder(nodes[v].left)

\* A deletion whose double-black fix-up rotated, leaving ones on the left.
C5_Witness ==
  /\ Did("double_black_rotate")
  /\ \E v \in InnerNodes :
       /\ nodes[v].ones_in_left_tree > 0
       /\ nodes[v].ones_in_left_tree = OnesUnder(nodes[v].left)

\* The numbers of black nodes on the paths from n down to its leaves; a
\* node left DOUBLE_BLACK is counted as one black node.
RECURSIVE BlackCounts(_)
BlackCounts(n) ==
  IF n = nullptr THEN {}
  ELSE IF HasLeaf(Heap, n) THEN {1}
  ELSE { (IF get_color(Heap, n) = "RED" THEN 0 ELSE 1) + c :
         c \in BlackCounts(nodes[n].left) \cup BlackCounts(nodes[n].right) }

\* C6: after every public mutation the backbone is a valid red-black tree:
\* the root is black, no red node has a red child, and every root-to-leaf
\* path holds the same number of black nodes (leaves counting as black).
C6_RedBlackTree ==
  /\ get_color(Heap, root) # "RED"
  /\ \A v \in InnerNodes :
       get_color(Heap, v) = "RED" =>
         /\ get_color(Heap, nodes[v].left) # "RED"
         /\ get_color(Heap, nodes[v].right) # "RED"
  /\ Cardinality(BlackCounts(root)) = 1

\* C7: after every public mutation every leaf other than a sole root leaf
\* holds between MinLeafSizeBlocks and MaxLeafSizeBlocks blocks.
C7_LeafBlockBounds ==
  \A l \in LeafNodes :
    l # root =>
      /\ MinLeafSizeBlocks <= size_in_blocks(LeafOf(Heap, l))
      /\ size_in_blocks(LeafOf(Heap, l)) <= MaxLeafSizeBlocks

\* A deletion in a minimum-size leaf that was repaired by stealing a bit.
C7_Witness ==
  /\ Did("steal_from_left") \/ Did("steal_from_right")
  /\ \E l \in LeafNodes :
       l # root /\ size_in_blocks(LeafOf(Heap, l)) = MinLeafSizeBlocks

(***************************************************************************)
(* Properties of the balanced-parenthesis tree.                            *)
(***************************************************************************)
RECURSIVE Flatten(_)
Flatten(seqs) == IF seqs = <<>> THEN <<>> ELSE Head(seqs) \o Flatten(Tail(seqs))

\* C8: starting from the one-node tree, after every insert_node(v, i, k)
\* with valid arguments and every delete_node(v), v # 0, the bit sequence
\* is a balanced parenthesis string: as many 0s as 1s, and in every prefix
\* at least as many 0s (opens) as 1s (closes).
C8_BalancedParentheses ==
  LET bits == TreeBits(Heap)
  IN /\ Count(bits, LEFT, Len(bits)) = Count(bits, RIGHT, Len(bits))
     /\ \A j \in 1..Len(bits) : Count(bits, LEFT, j) >= Count(bits, RIGHT, j)

\* A node other than the root was deleted from a tree whose bits span
\* several leaves.
C8_Witness ==
  /\ op.name = "delete_node"
  /\ op.v > 0
  /\ ~HasLeaf(Heap, root)
  /\ size(Heap) >= 8

\* C9: the tree refines the SimpleTree put through the same operations:
\* equal parenthesis strings, equal subtree sizes of corresponding nodes;
\* insert_node(v, i, k) makes the new node the i-th child of v, holding the
\* former i-th..(i+k-1)-th children in order; delete_node puts the deleted
\* node's children in its place under its parent.
C9_RefinesSimpleTree ==
  /\ get_bp_representation(Heap) = SimpleTree_get_bp_representation(stree, stree.root)
  /\ \A v \in OpenPositions(Heap) :
       /\ NodeOf(Heap, v) \in DOMAIN stree.nodes
       /\ subtree_size(Heap, v) = SimpleTree_subtree_size(stree, NodeOf(Heap, v))
  /\ op.name = "insert_node" =>
       LET adopted == SubSeq(op.before, op.i, op.i + op.k - 1)
       IN /\ ChildSpans(Heap, op.v) =
               SubSeq(op.before, 1, op.i - 1)
               \o << <<LEFT>> \o Flatten(adopted) \o <<RIGHT>> >>
               \o SubSeq(op.before, op.i + op.k, Len(op.before))
          /\ ChildSpans(Heap, i_th_child(Heap, op.v, op.i)) = adopted
  /\ op.name = "delete_node" =>
       ChildSpans(Heap, op.v) =
         SubSeq(op.before, 1, op.i - 1) \o op.inner
         \o SubSeq(op.before, op.i + 1, Len(op.before))

\* A node holding two children was deleted from among several siblings.
C9_Witness ==
  /\ op.name = "delete_node"
  /\ Len(op.inner) >= 2
  /\ Len(op.before) >= 2
  /\ Len(ChildSpans(Heap, op.v)) = Len(op.before) + Len(op.inner) - 1

\* C10: parent(i_th_child(v, i)) = v for every node v with children and
\* every i in [1, number of children of v].
C10_ParentOfChild ==
  \A v \in OpenPositions(Heap) :
    \A i \in 1..Len(ChildSpans(Heap, v)) :
      parent(Heap, i_th_child(Heap, v, i)) = v

\* A node below the root with two children, the second of which has a
\* child of its own.
C10_Witness ==
  \E v \in OpenPositions(Heap) \ {0} :
    /\ Len(ChildSpans(Heap, v)) >= 2
    /\ Len(ChildSpans(Heap, i_th_child(Heap, v, 2))) >= 1
    /\ parent(Heap, i_th_child(Heap, v, 2)) = v

\* Nesting depth of the opening parenthesis at v: the excess of [0, v].
DepthOf(h, v) ==
  Cardinality({p \in 0..v : at(h, p) = LEFT})
  - Cardinality({p \in 0..v : at(h, p) = RIGHT})

\* C11 as stated: for every node v other than the root, parent(v) is
\* backward_search(v, -2).position, the opening parenthesis whose excess
\* is two less than v's.
C11_ParentIsSearchMinusTwo ==
  \A v \in OpenPositions(Heap) \ {0} :
    parent(Heap, v) = backward_search(Heap, v, -2).position

\* C11: for every node v other than the root, parent(v) is the position
\* found by backward_search(v, -1): the nearest enclosing opening
\* parenthesis, whose excess is one less than v's, which is the position of
\* the parent of v's node in the SimpleTree.
C11_ParentIsSearchMinusOne ==
  \A v \in OpenPositions(Heap) \ {0} :
    LET r == backward_search(Heap, v, -1)
    IN /\ r.found
       /\ parent(Heap, v) = r.position
       /\ at(Heap, parent(Heap, v)) = LEFT
       /\ DepthOf(Heap, parent(Heap, v)) = DepthOf(Heap, v) - 1
       /\ NodeOf(Heap, parent(Heap, v)) = SimpleTree_parent(stree, NodeOf(Heap, v))

\* A node two levels below the root that has an elder sibling: its parent
\* is neither the root nor the position before it.
C11_Witness ==
  \E v \in OpenPositions(Heap) \ {0} :
    /\ DepthOf(Heap, v) >= 3
    /\ parent(Heap, v) > 0
    /\ parent(Heap, v) < v - 1
    /\ backward_search(Heap, v, -2).position # parent(Heap, v)

\* The stack oracle: scanning bits from position j with the stack of the
\* positions of the parentheses still open, the position of the closing
\* parenthesis that pops p (-1 when there is none).
RECURSIVE StackMatch(_, _, _, _)
StackMatch(bits, j, stack, p) ==
  IF j >= Len(bits) THEN -1
  ELSE IF bits[j + 1] = LEFT THEN StackMatch(bits, j + 1, <<j>> \o stack, p)
  ELSE IF stack = <<>> THEN -1
  ELSE IF Head(stack) = p THEN j
  ELSE StackMatch(bits, j + 1, Tail(stack), p)

PrefixExcess(bits, k) == Count(bits, LEFT, k) - Count(bits, RIGHT, k)

\* The summary of a run of bits computed from scratch: its excess, and the
\* least excess of its non-empty prefixes (2 when there is none below 2).
SummaryOf(bits) ==
  [block_excess |-> PrefixExcess(bits, Len(bits)),
   min_excess_in_block |->
     CHOOSE m \in {2} \cup {PrefixExcess(bits, k) : k \in 1..Len(bits)} :
       \A k \in 1..Len(bits) : m <= PrefixExcess(bits, k)]

\* The bits of chunk c (0-based) of bits.
ChunkBits(bits, c) ==
  SubSeq(bits, c * BITS_PER_CHUNK + 1, Min((c + 1) * BITS_PER_CHUNK, Len(bits)))

ChunksConsistent ==
  \A c \in 1..Len(leaf.chunk_array) :
    leaf.chunk_array[c] = SummaryOf(ChunkBits(expected, c - 1))

\* C16: after any sequence of set, reset, flip, insert, delete_element,
\* push_back, pop_back, split and block-aligned copy_to_back the chunk array
\* has ceil(size_in_blocks / BLOCKS_PER_CHUNK) entries, every entry is the
\* from-scratch summary of its chunk of bits, and excess().compute() is the
\* total excess and the minimum prefix excess of the leaf.
C16_ChunkArrayIsFromScratch ==
  /\ Len(leaf.chunk_array) * BLOCKS_PER_CHUNK >= size_in_blocks(leaf)
  /\ (Len(leaf.chunk_array) - 1) * BLOCKS_PER_CHUNK < size_in_blocks(leaf)
       \/ Len(leaf.chunk_array) = 0
  /\ ChunksConsistent
  /\ compute(leaf) = SummaryOf(expected)

\* Running excess of bits pos..p of bits: opening minus closing ones.
RangeExcess(bits, pos, p) == PrefixExcess(bits, p + 1) - PrefixExcess(bits, pos)

\* The positions p in [pos, s) at which the running excess from pos is d.
ForwardHits(bits, pos, d) ==
  {p \in pos..(Len(bits) - 1) : RangeExcess(bits, pos, p) = d}

\* The positions q < pos at which the backward running excess (LEFT -1,
\* RIGHT +1 over bits pos-1 down to q) is d.
BackwardHits(bits, pos, d) ==
  {q \in 0..(pos - 1) : -RangeExcess(bits, q, pos - 1) = d}

Targets == (-MaxLeafBits)..MaxLeafBits

\* C13: for a leaf of s bits, every pos in [0, s) and every signed target
\* d, if some p in [pos, s) has running excess d then forward_search(pos, d)
\* is found, at the smallest such p, with excess d.
C13_ForwardSearchFindsFirst ==
  \A pos \in 0..(Len(expected) - 1) : \A d \in Targets :
    ForwardHits(expected, pos, d) # {} =>
      ExLeaf_forward_search(leaf, pos, d) =
        [position |-> CHOOSE p \in ForwardHits(expected, pos, d) :
                        \A p2 \in ForwardHits(expected, pos, d) : p <= p2,
         excess |-> d, found |-> TRUE]

\* C14: when no p in [pos, s) reaches running excess d, forward_search(pos, d)
\* is not found and its excess is the total excess of the bits in [pos, s).
C14_ForwardSearchReportsExcess ==
  \A pos \in 0..(Len(expected) - 1) : \A d \in Targets :
    ForwardHits(expected, pos, d) = {} =>
      LET r == ExLeaf_forward_search(leaf, pos, d)
      IN /\ ~r.found
         /\ r.excess = RangeExcess(expected, pos, Len(expected) - 1)

\* C15: backward_search(pos, d) returns the largest q < pos at which the
\* backward running excess over pos-1 down to q is d, and is not found when
\* there is none; so at a closing parenthesis i the target -1 gives the
\* matching opening parenthesis and -2 the one enclosing the pair.
C15_BackwardSearchFindsLast ==
  \A pos \in 0..(Len(expected) - 1) : \A d \in Targets :
    LET hits == BackwardHits(expected, pos, d)
        r == ExLeaf_backward_search(leaf, pos, d)
    IN IF hits = {} THEN ~r.found
       ELSE r = [position |-> CHOOSE q \in hits : \A q2 \in hits : q >= q2,
                 excess |-> d, found |-> TRUE]

RECURSIVE get_tree_structure_at_node(_, _)
get_tree_structure_at_node(h, node) ==
  IF node = nullptr THEN <<>>
  ELSE IF HasLeaf(h, node)
  THEN <<"(", Leaf_size(LeafOf(h, node)), Leaf_num_ones(LeafOf(h, node)), ")">>
  ELSE <<"(", h.nodes[node].num_bits_left_tree, h.nodes[node].ones_in_left_tree>>
       \o get_tree_structure_at_node(h, h.nodes[node].left)
       \o get_tree_structure_at_node(h, h.nodes[node].right)
       \o <<")">>

get_tree_structure(h) ==
  <<size(h), num_ones(h)>> \o get_tree_structure_at_node(h, h.root)

\* The positions tried on the current vector: all of them on a small one,
\* the ends and the middle on a large one.
ProbePositions(n) == IF n <= MaxFull THEN 0..n ELSE {0, n \div 2, n}

\* C18 as stated: insert(i, b) followed by delete_element(i) restores the
\* bit sequence, size(), num_ones() and the tree shape with its counters
\* (get_tree_structure() gives the identical string), for every i in
\* [0, N] and every bit b.
C18_InsertDeleteRestoresAll ==
  \A i \in ProbePositions(current_size) : \A b \in Bit :
    Let(delete_element(insert(Heap, i, b), i), LAMBDA after :
      /\ TreeBits(after) = TreeBits(Heap)
      /\ size(after) = size(Heap)
      /\ num_ones(after) = num_ones(Heap)
      /\ get_tree_structure(after) = get_tree_structure(Heap))

\* C18: insert(i, b) followed by delete_element(i) restores the bit
\* sequence, size() and num_ones(), for every i in [0, N] and every bit b;
\* when the insert split no leaf it also restores the tree shape with its
\* counters (get_tree_structure() gives the identical string).
C18_InsertDeleteRestoresBits ==
  \A i \in ProbePositions(current_size) : \A b \in Bit :
    Let(delete_element(insert(Heap, i, b), i), LAMBDA after :
      /\ TreeBits(after) = TreeBits(Heap)
      /\ TreeBits(after) = expected
      /\ size(after) = size(Heap)
      /\ num_ones(after) = num_ones(Heap)
      /\ "split" \notin after.ev =>
           get_tree_structure(after) = get_tree_structure(Heap))

\* A vector of several leaves holding ones in which some insert splits a
\* leaf and the delete that follows does not undo the split.
C18_Witness ==
  /\ ~HasLeaf(Heap, root)
  /\ num_ones(Heap) >= 2
  /\ \E i \in ProbePositions(current_size) :
       Let(delete_element(insert(Heap, i, 1), i), LAMBDA after :
         /\ "split" \in after.ev
         /\ TreeBits(after) = expected
         /\ get_tree_structure(after) # get_tree_structure(Heap))

\* The position of the first bit under node n.
RECURSIVE StartOf(_, _)
StartOf(h, n) ==
  IF h.nodes[n].parent = nullptr THEN 0
  ELSE IF h.nodes[h.nodes[n].parent].right = n
  THEN StartOf(h, h.nodes[n].parent) + h.nodes[h.nodes[n].parent].num_bits_left_tree
  ELSE StartOf(h, h.nodes[n].parent)

\* Position i lies in the left subtree of the inner node v.
InLeftSubtree(h, v, i) ==
  StartOf(h, v) <= i /\ i < StartOf(h, v) + h.nodes[v].num_bits_left_tree

\* C19: for every i in [0, N), flip(i) changes only bit i, num_ones() by +1
\* or -1 with the new bit, and ones_in_left_tree of exactly the inner nodes
\* whose left subtree contains i; flip(i) twice restores the bit sequence,
\* num_ones() and every node, ones_in_left_tree included.
C19_FlipTwiceRestores ==
  \A i \in 0..(current_size - 1) :
    Let(flip(Heap, i), LAMBDA once :
      /\ TreeBits(once) = [expected EXCEPT ![i + 1] = 1 - @]
      /\ size(once) = size(Heap)
      /\ num_ones(once) = IF expected[i + 1] = 0 THEN num_ones(Heap) + 1
                          ELSE num_ones(Heap) - 1
      /\ DOMAIN once.nodes = DOMAIN nodes
      /\ \A v \in InnerNodes :
           /\ once.nodes[v] = [nodes[v] EXCEPT !.ones_in_left_tree =
                                 once.nodes[v].ones_in_left_tree]
           /\ once.nodes[v].ones_in_left_tree =
                IF ~InLeftSubtree(Heap, v, i) THEN nodes[v].ones_in_left_tree
                ELSE IF expected[i + 1] = 0 THEN nodes[v].ones_in_left_tree + 1
                ELSE nodes[v].ones_in_left_tree - 1
      /\ Let(flip(once, i), LAMBDA twice :
           /\ TreeBits(twice) = expected
           /\ num_ones(twice) = num_ones(Heap)
           /\ twice.nodes = nodes
           /\ twice.root = root))

\* A vector of three or more leaves with a position under the right child
\* of the root that lies in the left subtree of an inner node below.
C19_Witness ==
  /\ Cardinality(InnerNodes) >= 2
  /\ \E i \in 0..(current_size - 1) : \E v \in InnerNodes \ {root} :
       /\ expected[i + 1] = 1
       /\ ~InLeftSubtree(Heap, root, i)
       /\ InLeftSubtree(Heap, v, i)
       /\ flip(Heap, i).nodes[v].ones_in_left_tree = nodes[v].ones_in_left_tree - 1
       /\ flip(Heap, i).nodes[root].ones_in_left_tree = nodes[root].ones_in_left_tree


(***************************************************************************)
(* The scripted scenario of run_bv.                                        *)
(***************************************************************************)
\* The run on the bits of S1 has processed every query.
S1_Done == run.input = S1_Bits /\ run.pc = Len(S1_Queries) + 1

\* C20 as stated: on the bit vector 10110 the queries rank 1 5, rank 0 4,
\* select 1 2, insert 2 0, flip 0, delete 4, select 0 3 write 3, 1, 2, 4.
C20_S1WritesAsStated == S1_Done => run.output = <<3, 1, 2, 4>>

\* C20: on the bit vector 10110 the queries rank 1 5, rank 0 4, select 1 2,
\* insert 2 0, flip 0, delete 4, select 0 3 write 3, 1, 2, 2 (the vector is
\* 00010 when the last query asks for its third zero).
C20_S1Writes == S1_Done => run.output = <<3, 1, 2, 2>>

C20_Witness ==
  /\ S1_Done
  /\ Len(run.output) = 4
  /\ expected = <<0, 0, 0, 1, 0>>
  /\ TreeBits(Heap) = expected


(***************************************************************************)
(* The scripted scenarios of the balanced-parenthesis tree.                *)
(***************************************************************************)
Paren(str) == [j \in 1..Len(str) |-> IF str[j] = "(" THEN LEFT ELSE RIGHT]

\* The root with n childless children: ( followed by n times () and ).
Star(n) == <<LEFT>> \o Flatten([j \in 1..n |-> <<LEFT, RIGHT>>]) \o <<RIGHT>>

\* The last operation was insert_node(0, 1, 0) on the root with n childless
\* children: the (n + 1)-th call of scenario S3.
S3_Call(n) ==
  /\ op.name = "insert_node"
  /\ op.v = 0 /\ op.i = 1 /\ op.k = 0
  /\ op.before = [j \in 1..n |-> <<LEFT, RIGHT>>]

\* C21: from the one-node tree (), each of three successive
\* insert_node(0, 1, 0) adds a childless child to the root, the third
\* giving (()()()); there subtree_size(0) = 4, i_th_child(0, 2) = 3 and
\* parent(3) = 0.
C21_S3 ==
  /\ \A n \in 0..2 : S3_Call(n) => TreeBits(Heap) = Star(n + 1)
  /\ S3_Call(2) =>
       /\ get_bp_representation(Heap) = <<"(", "(", ")", "(", ")", "(", ")", ")">>
       /\ subtree_size(Heap, 0) = 4
       /\ i_th_child(Heap, 0, 2) = 3
       /\ parent(Heap, 3) = 0

\* The third call of S3 has been made.
C21_Witness ==
  /\ S3_Call(2)
  /\ expected = Paren(<<"(", "(", ")", "(", ")", "(", ")", ")">>)
  /\ Cardinality(DOMAIN stree.nodes) = 4


\* The valid arguments of insert_node at node v: the new node becomes the
\* i-th child and takes k of the former children.
ValidInserts(v) ==
  LET deg == Len(ChildSpans(Heap, v))
  IN {ik \in (1..(deg + 1)) \X (0..deg) : ik[1] + ik[2] <= deg + 1}

\* C22: from (()()()), insert_node(0, 1, 2) gives ((()())()) with
\* subtree_size(i_th_child(0, 1)) = 3, and delete_node(i_th_child(0, 1))
\* gives (()()()) again; for every node v and all valid (i, k),
\* insert_node(v, i, k) followed by delete_node(i_th_child(v, i)) restores
\* the bit sequence.
C22_InsertNodeDeleteNodeRestores ==
  /\ \A v \in OpenPositions(Heap) : \A ik \in ValidInserts(v) :
       Let(insert_node(Heap, v, ik[1], ik[2]), LAMBDA grown :
         /\ size(grown) = size(Heap) + 2
         /\ at(grown, i_th_child(grown, v, ik[1])) = LEFT
         /\ subtree_size(grown, i_th_child(grown, v, ik[1])) =
              1 + Len(Flatten(SubSeq(ChildSpans(Heap, v), ik[1], ik[1] + ik[2] - 1))) \div 2
         /\ Let(delete_node(grown, i_th_child(grown, v, ik[1])), LAMBDA after :
              /\ TreeBits(after) = TreeBits(Heap)
              /\ TreeBits(after) = expected
              /\ size(after) = size(Heap)))
  /\ expected = Star(3) =>
       Let(insert_node(Heap, 0, 1, 2), LAMBDA grown :
         /\ TreeBits(grown) = Paren(<<"(", "(", "(", ")", "(", ")", ")", "(", ")", ")">>)
         /\ subtree_size(grown, i_th_child(grown, 0, 1)) = 3
         /\ TreeBits(delete_node(grown, i_th_child(grown, 0, 1))) = Star(3))

\* The tree (()()()) of scenario S4, spread over several leaves, on which
\* insert_node(0, 1, 2) is about to wrap the first two children.
C22_Witness ==
  /\ expected = Star(3)
  /\ TreeBits(Heap) = expected
  /\ ~HasLeaf(Heap, root)
  /\ <<1, 2>> \in ValidInserts(0)
  /\ size(insert_node(Heap, 0, 1, 2)) = 10


(***************************************************************************)
(* subtree_size against the parenthesis sequence.                          *)
(***************************************************************************)
\* The sum of subtree_size over the first n children of v.
RECURSIVE SumChildren(_, _, _)
SumChildren(h, v, n) ==
  IF n = 0 THEN 0
  ELSE SumChildren(h, v, n - 1) + subtree_size(h, i_th_child(h, v, n))

\* C23: for every node v, subtree_size(v) = (q - v + 1) / 2 with q the
\* closing parenthesis matching v (by the stack oracle), which is 1 plus
\* the sum of subtree_size over the children of v and the number of nodes
\* in the subtree of v.
C23_SubtreeSize ==
  \A v \in OpenPositions(Heap) :
    LET q == StackMatch(expected, 0, <<>>, v)
    IN /\ q > v
       /\ subtree_size(Heap, v) = (q - v + 1) \div 2
       /\ subtree_size(Heap, v) = 1 + SumChildren(Heap, v, Len(ChildSpans(Heap, v)))
       /\ subtree_size(Heap, v) = Cardinality({p \in v..q : expected[p + 1] = LEFT})
       /\ subtree_size(Heap, v) = SimpleTree_subtree_size(stree, NodeOf(Heap, v))

\* A node below the root with two children, one of which has a child of
\* its own, in a tree spread over several leaves.
C23_Witness ==
  /\ ~HasLeaf(Heap, root)
  /\ \E v \in OpenPositions(Heap) \ {0} :
       /\ Len(ChildSpans(Heap, v)) = 2
       /\ subtree_size(Heap, v) = 4
       /\ SumChildren(Heap, v, 2) = 3


(***************************************************************************)
(* Properties of the plain SimpleBitVector.                                *)
(***************************************************************************)
CeilDiv(s, w) == (s + w - 1) \div w

\* C24: after construction with any initial size and after any sequence of
\* insert, delete_element, push_back, pop_back, split and copy_to_back, a
\* leaf of s bits has size_in_blocks() = ceil(s / W), 0 when s = 0; insert
\* appends a block exactly when s was a multiple of W and delete_element
\* pops the tail block exactly when s falls to a multiple of W.
C24_BlocksAreCeil ==
  /\ size_in_blocks(leaf) = CeilDiv(Leaf_size(leaf), BLOCK_SIZE)
  /\ Leaf_size(leaf) = Len(expected)
  /\ Leaf_size(leaf) = 0 => size_in_blocks(leaf) = 0
  /\ \A i \in 0..Leaf_size(leaf) : \A value \in Bit :
       size_in_blocks(Leaf_insert(leaf, i, value)) =
         IF Leaf_size(leaf) % BLOCK_SIZE = 0 THEN size_in_blocks(leaf) + 1
         ELSE size_in_blocks(leaf)
  /\ \A i \in 0..(Leaf_size(leaf) - 1) :
       size_in_blocks(Leaf_delete_element(leaf, i)) =
         IF (Leaf_size(leaf) - 1) % BLOCK_SIZE = 0 THEN size_in_blocks(leaf) - 1
         ELSE size_in_blocks(leaf)

\* A leaf of exactly two full blocks: the next insert appends a block and
\* a delete leaves the number of blocks alone.
C24_Witness ==
  /\ phase = "simple"
  /\ Leaf_size(leaf) = 2 * BLOCK_SIZE
  /\ size_in_blocks(leaf) = 2
  /\ size_in_blocks(Leaf_insert(leaf, 1, 1)) = 3
  /\ size_in_blocks(Leaf_delete_element(leaf, 0)) = 2
  /\ 1 \in {expected[k] : k \in 1..Len(expected)}


\* C25: on a leaf of s bits, insert(i, v) with 0 <= i <= s leaves the bits
\* before i alone, puts v at i and moves every former bit at j >= i to
\* j + 1; delete_element(i) with 0 <= i < s leaves the bits before i alone
\* and moves every former bit at j > i to j - 1, also when i is the last
\* bit of a block and when the shift crosses blocks: the leaf equals the
\* plain list under the same inserts and erases.
C25_LeafRefinesList ==
  /\ LeafBits(leaf) = expected
  /\ \A i \in 0..Leaf_size(leaf) : \A v \in Bit :
       Let(LeafBits(Leaf_insert(leaf, i, v)), LAMBDA bits :
         /\ Len(bits) = Len(expected) + 1
         /\ \A j \in 0..(i - 1) : bits[j + 1] = expected[j + 1]
         /\ bits[i + 1] = v
         /\ \A j \in i..(Len(expected) - 1) : bits[j + 2] = expected[j + 1]
         /\ bits = InsertAt(expected, i, v))
  /\ \A i \in 0..(Leaf_size(leaf) - 1) :
       Let(LeafBits(Leaf_delete_element(leaf, i)), LAMBDA bits :
         /\ Len(bits) = Len(expected) - 1
         /\ \A j \in 0..(i - 1) : bits[j + 1] = expected[j + 1]
         /\ \A j \in (i + 1)..(Len(expected) - 1) : bits[j] = expected[j + 1]
         /\ bits = RemoveAt(expected, i))

\* A leaf of three full blocks or more on which an insert and a delete at
\* the last bit of the first block each carry a set bit across a block
\* boundary.
C25_Witness ==
  /\ phase = "simple"
  /\ size_in_blocks(leaf) >= 3
  /\ Leaf_size(leaf) % BLOCK_SIZE = 0
  /\ expected[BLOCK_SIZE] = 1
  /\ expected[BLOCK_SIZE + 1] = 0
  /\ expected[2 * BLOCK_SIZE + 1] = 1
  /\ LeafBits(Leaf_delete_element(leaf, BLOCK_SIZE - 1))[2 * BLOCK_SIZE] = 1
  /\ LeafBits(Leaf_insert(leaf, BLOCK_SIZE - 1, 0))[BLOCK_SIZE + 1] = 1


\* C26: split() on a leaf of n blocks and s bits keeps the first
\* floor(n / 2) blocks in this leaf, whose length becomes floor(n / 2) * W
\* bits, and returns a new leaf holding the other s - floor(n / 2) * W bits
\* in the same order, in ceil of that over W blocks; the two leaves
\* concatenated are the original sequence.
C26_SplitHalves ==
  LET n == size_in_blocks(leaf)
      s == Leaf_size(leaf)
      kept == (n \div 2) * BLOCK_SIZE
  IN Let(split(leaf), LAMBDA halves :
       /\ size_in_blocks(halves.this) = n \div 2
       /\ Leaf_size(halves.this) = kept
       /\ halves.this.blocks = SubSeq(leaf.blocks, 1, n \div 2)
       /\ Leaf_size(halves.split_out_bv) = s - kept
       /\ size_in_blocks(halves.split_out_bv) = CeilDiv(s - kept, BLOCK_SIZE)
       /\ LeafBits(halves.this) = SubSeq(expected, 1, kept)
       /\ LeafBits(halves.split_out_bv) = SubSeq(expected, kept + 1, s)
       /\ LeafBits(halves.this) \o LeafBits(halves.split_out_bv) = expected)

\* A leaf with an odd number of blocks, three or more, the last one partly
\* filled, holding set bits in both halves.
C26_Witness ==
  /\ phase = "simple"
  /\ size_in_blocks(leaf) >= 3
  /\ size_in_blocks(leaf) % 2 = 1
  /\ Leaf_size(leaf) % BLOCK_SIZE # 0
  /\ Leaf_num_ones(split(leaf).this) >= 1
  /\ Leaf_num_ones(split(leaf).split_out_bv) >= 1
  /\ size_in_blocks(split(leaf).split_out_bv) = size_in_blocks(split(leaf).this) + 1


\* C27: for leaves without a ChunkIndex, dst.copy_to_back(src) makes dst
\* the concatenation of the old dst and src, of size old dst + src.size(),
\* for every combination of lengths: the tail of dst aligned to W or not,
\* dst empty, src empty, both lengths multiples of W.  Every reachable leaf
\* holds the blocks of the leaf constructed from its bits, so src ranges
\* over the leaves constructed from their bits.
C27_CopyToBackConcatenates ==
  /\ leaf.blocks = parse_bv_input(expected).blocks
  /\ \A bits \in BitSeqs(MaxSrcBits) :
       Let(copy_to_back(leaf, parse_bv_input(bits)), LAMBDA dst :
         /\ Leaf_size(dst) = Leaf_size(leaf) + Len(bits)
         /\ size_in_blocks(dst) = CeilDiv(Leaf_size(dst), BLOCK_SIZE)
         /\ LeafBits(dst) = expected \o bits
         /\ dst.blocks = parse_bv_input(expected \o bits).blocks)

\* A dst whose tail is not aligned to W and which has a set bit in its last
\* block, under a src of three blocks the last of which is partly filled.
C27_Witness ==
  /\ phase = "simple"
  /\ Leaf_size(leaf) % BLOCK_SIZE # 0
  /\ Leaf_size(leaf) > BLOCK_SIZE
  /\ expected[Len(expected)] = 1
  /\ \E bits \in BitSeqs(MaxSrcBits) :
       /\ Len(bits) > 2 * BLOCK_SIZE
       /\ Len(bits) % BLOCK_SIZE # 0
       /\ bits[1] = 1 /\ bits[Len(bits)] = 1
       /\ LeafBits(copy_to_back(leaf, parse_bv_input(bits))) = expected \o bits


(***************************************************************************)
(* The checks of the debug build on the excess leaf.                       *)
(***************************************************************************)
\* C28: on an excess-capable leaf in the debug build, split() signals
\* std::invalid_argument when floor(size_in_blocks / 2) is not a multiple
\* of BlocksPerChunk and returns no leaf, and copy_to_back of a non-empty
\* leaf signals std::invalid_argument when the length of this leaf is not
\* a multiple of W and leaves this leaf as it was.
C28_MisalignedIsSignalled ==
  /\ (CeilDiv(Len(expected), BLOCK_SIZE) \div 2) % BLOCKS_PER_CHUNK # 0 =>
       /\ ExLeaf_split_debug(leaf).thrown = "std::invalid_argument"
       /\ ExLeaf_split_debug(leaf).returned = <<>>
  /\ Len(expected) % BLOCK_SIZE # 0 =>
       \A bits \in BitSeqs(MaxOtherBits) \ {<<>>} :
         /\ ExLeaf_copy_to_back_debug(leaf, ExLeaf_of(bits)).thrown = "std::invalid_argument"
         /\ ExLeaf_copy_to_back_debug(leaf, ExLeaf_of(bits)).this = leaf

\* A leaf holding set bits on which both operations are misaligned, as the
\* 334-bit leaves of the tests are, while copy_to_back of the empty leaf
\* completes.
C28_Witness ==
  /\ phase = "leaf"
  /\ Leaf_num_ones(leaf) >= 1
  /\ (size_in_blocks(leaf) \div 2) % BLOCKS_PER_CHUNK # 0
  /\ Leaf_size(leaf) % BLOCK_SIZE # 0
  /\ ExLeaf_split_debug(leaf).thrown = "std::invalid_argument"
  /\ ExLeaf_copy_to_back_debug(leaf, ExLeaf_of(<<1>>)).thrown = "std::invalid_argument"
  /\ ExLeaf_copy_to_back_debug(leaf, ExLeaf_of(<<>>)).thrown = "none"


(***************************************************************************)
(* Termination of the queries.                                             *)
(***************************************************************************)
\* C29: rank and select end on every reachable vector for every argument,
\* those that violate a precondition included (select with k = 0 or k
\* greater than the number of matching bits, rank with i > N): the call
\* returns some value or faults, it never runs on for ever.
C29_QueriesEnd ==
  \A b \in BOOLEAN :
    /\ \A k \in 0..(current_size + 1) : NeverEnds \notin select(Heap, b, k)
    /\ \A i \in 0..(current_size + 1) : NeverEnds \notin rank(Heap, b, i)


(***************************************************************************)
(* The node graph of the dynamic bit vector.                               *)
(***************************************************************************)
\* Following parent pointers from n reaches the root within fuel steps.
RECURSIVE ClimbsToRoot(_, _, _)
ClimbsToRoot(h, n, fuel) ==
  IF n = h.root THEN TRUE
  ELSE IF fuel = 0 \/ n \notin DOMAIN h.nodes THEN FALSE
  ELSE ClimbsToRoot(h, h.nodes[n].parent, fuel - 1)

\* The live nodes of h are a proper binary tree owned by the root: the
\* root has no parent; an inner node has two distinct live children that
\* point back to it; a leaf container has no children; every live node is
\* the child of its parent and climbs to the root, so exactly one path
\* leads to it and no pointer on a path refers to a freed node.
ProperTree(h) ==
  /\ h.root \in DOMAIN h.nodes
  /\ h.nodes[h.root].parent = nullptr
  /\ \A n \in DOMAIN h.nodes :
       /\ IF HasLeaf(h, n)
          THEN h.nodes[n].left = nullptr /\ h.nodes[n].right = nullptr
          ELSE /\ h.nodes[n].left \in DOMAIN h.nodes
               /\ h.nodes[n].right \in DOMAIN h.nodes
               /\ h.nodes[n].left # h.nodes[n].right
               /\ h.nodes[h.nodes[n].left].parent = n
               /\ h.nodes[h.nodes[n].right].parent = n
       /\ n # h.root =>
            /\ h.nodes[n].parent \in DOMAIN h.nodes
            /\ n \in {h.nodes[h.nodes[n].parent].left, h.nodes[h.nodes[n].parent].right}
       /\ ClimbsToRoot(h, n, Cardinality(DOMAIN h.nodes))

\* C30: after every public mutation of the dynamic bit vector (insert,
\* delete_element, set, flip, at every position tried) the node graph is a
\* proper binary tree owned by the root, and the nodes and leaves freed by
\* a merge are on no path from the root.
C30_ProperTree ==
  /\ ProperTree(Heap)
  /\ \A i \in ProbePositions(current_size) : \A b \in Bit :
       ProperTree(insert(Heap, i, b))
  /\ \A i \in ProbePositions(current_size) \ {current_size} :
       /\ ProperTree(delete_element(Heap, i))
       /\ ProperTree(flip(Heap, i))
       /\ \A b \in Bit : ProperTree(set(Heap, i, b))

\* A delete that merges two leaves, frees nodes and rotates: the tree has
\* fewer nodes afterwards and a different root.
C30_Witness ==
  /\ Cardinality(DOMAIN nodes) >= 7
  /\ \E i \in ProbePositions(current_size) \ {current_size} :
       Let(delete_element(Heap, i), LAMBDA after :
         /\ Cardinality(DOMAIN after.nodes) < Cardinality(DOMAIN nodes)
         /\ after.root # root
         /\ ProperTree(after))


(***************************************************************************)
(* Underflow of a leaf on delete_element.                                  *)
(***************************************************************************)
\* The leaf nodes of h under n, left to right.
RECURSIVE LeafSeq(_, _)
LeafSeq(h, n) ==
  IF n = nullptr THEN <<>>
  ELSE IF HasLeaf(h, n) THEN <<n>>
  ELSE LeafSeq(h, h.nodes[n].left) \o LeafSeq(h, h.nodes[n].right)

\* The bit lengths of the leaves of h, left to right.
LeafSizes(h) ==
  LET ls == LeafSeq(h, h.root)
  IN [k \in 1..Len(ls) |-> Leaf_size(LeafOf(h, ls[k]))]

\* The number, in LeafSizes, of the leaf holding position i.
RECURSIVE LeafIndexOf(_, _, _)
LeafIndexOf(sizes, i, k) ==
  IF i < sizes[k] THEN k ELSE LeafIndexOf(sizes, i - sizes[k], k + 1)

\* Deleting position i takes a bit from a leaf that is not the root and
\* holds exactly MinLeafSizeBlocks * W bits.
Deficient(i) ==
  LET ls == LeafSeq(Heap, root)
      k == LeafIndexOf(LeafSizes(Heap), i, 1)
  IN /\ ls[k] # root
     /\ Leaf_size(LeafOf(Heap, ls[k])) = MinLeafSizeBlocks * BLOCK_SIZE

\* The neighbour across the parent of the k-th leaf: the leaf before it
\* when it is a right child, the leaf after it when it is a left child.
NeighbourOf(k) ==
  LET ls == LeafSeq(Heap, root)
  IN IF nodes[nodes[ls[k]].parent].right = ls[k] THEN k - 1 ELSE k + 1

\* The outcome of delete_element(i) on a deficient leaf, as C31 has it.
UnderflowHandled(i) ==
  LET sizes == LeafSizes(Heap)
      ls == LeafSeq(Heap, root)
      k == LeafIndexOf(sizes, i, 1)
      nb == NeighbourOf(k)
  IN Let(delete_element(Heap, i), LAMBDA after :
       /\ TreeBits(after) = RemoveAt(expected, i)
       /\ IF size_in_blocks(LeafOf(Heap, ls[nb])) > MinLeafSizeBlocks
          THEN /\ LeafSizes(after) =
                    [sizes EXCEPT ![nb] = @ - 1, ![k] = MinLeafSizeBlocks * BLOCK_SIZE]
               /\ DOMAIN after.nodes = DOMAIN nodes
               /\ after.ev \cap {"merge_into_left", "merge_into_right"} = {}
          ELSE /\ Len(LeafSizes(after)) = Len(sizes) - 1
               /\ Cardinality(DOMAIN after.nodes) = Cardinality(DOMAIN nodes) - 2
               /\ LeafSizes(after) =
                    [j \in 1..(Len(sizes) - 1) |->
                       IF j < Min(k, nb) THEN sizes[j]
                       ELSE IF j = Min(k, nb) THEN sizes[k] + sizes[nb] - 1
                       ELSE sizes[j + 1]]
               /\ after.ev \cap {"merge_into_left", "merge_into_right"} # {})

\* C31: when delete_element takes a bit from a non-sole leaf that held
\* exactly MinLeafSizeBlocks * W bits, then, if the leaf adjacent across
\* the joining node has more than MinLeafSizeBlocks blocks, one bit moves
\* from that neighbour to the deficient leaf, which holds
\* MinLeafSizeBlocks * W bits again, and the leaves stay as many;
\* otherwise the two leaves are merged, the joining node goes and there is
\* one leaf less.  Either way the sequence is the old one without bit i.
C31_UnderflowStealsOrMerges ==
  \A i \in 0..(current_size - 1) : Deficient(i) => UnderflowHandled(i)

\* A vector on which one delete steals from a neighbour that lies deeper in
\* the sibling subtree and another delete merges two leaves.
C31_Witness ==
  /\ \E i \in 0..(current_size - 1) :
       /\ Deficient(i)
       /\ UnderflowHandled(i)
       /\ size_in_blocks(LeafOf(Heap, LeafSeq(Heap, root)[NeighbourOf(
            LeafIndexOf(LeafSizes(Heap), i, 1))])) > MinLeafSizeBlocks
       /\ nodes[LeafSeq(Heap, root)[NeighbourOf(LeafIndexOf(LeafSizes(Heap), i, 1))]].parent
            # nodes[LeafSeq(Heap, root)[LeafIndexOf(LeafSizes(Heap), i, 1)]].parent
  /\ \E i \in 0..(current_size - 1) :
       /\ Deficient(i)
       /\ UnderflowHandled(i)
       /\ "merge_into_left" \in delete_element(Heap, i).ev


(***************************************************************************)
(* Split of a leaf on insert.                                              *)
(***************************************************************************)
\* The number of the leaf that insert(i, .) descends to: a position on the
\* border of two leaves is position 0 of the right one, position size()
\* is the end of the last leaf.
RECURSIVE LeafIndexIns(_, _, _)
LeafIndexIns(sizes, i, k) ==
  IF k = Len(sizes) \/ i < sizes[k] THEN k
  ELSE LeafIndexIns(sizes, i - sizes[k], k + 1)

\* The position inside that leaf.
RECURSIVE LeafOffsetIns(_, _, _)
LeafOffsetIns(sizes, i, k) ==
  IF k = Len(sizes) \/ i < sizes[k] THEN i
  ELSE LeafOffsetIns(sizes, i - sizes[k], k + 1)

\* insert(i, .) makes its leaf reach MaxLeafSizeBlocks blocks.
ReachesMax(i) ==
  LET sizes == LeafSizes(Heap)
  IN CeilDiv(sizes[LeafIndexIns(sizes, i, 1)] + 1, BLOCK_SIZE) >= MaxLeafSizeBlocks

\* The split step of insert(i, b), before the fix-up: the container n is an
\* inner node over two new BLACK leaves, the left one with half the blocks.
SplitStepAsStated(i, b) ==
  LET sizes == LeafSizes(Heap)
      k == LeafIndexIns(sizes, i, 1)
      j == LeafOffsetIns(sizes, i, 1)
      n == LeafSeq(Heap, root)[k]
      bits == InsertAt(LeafBits(LeafOf(Heap, n)), j, b)
      keep == (CeilDiv(sizes[k] + 1, BLOCK_SIZE) \div 2) * BLOCK_SIZE
  IN Let(insert_at_node_split(Heap, n, Leaf_insert(LeafOf(Heap, n), j, b)), LAMBDA h3 :
       LET l == h3.nodes[n].left
           r == h3.nodes[n].right
       IN /\ ~HasLeaf(h3, n)
          /\ {l, r} \cap DOMAIN nodes = {}
          /\ l # r /\ l # nullptr /\ r # nullptr
          /\ HasLeaf(h3, l) /\ HasLeaf(h3, r)
          /\ h3.nodes[l].color = "BLACK" /\ h3.nodes[r].color = "BLACK"
          /\ h3.nodes[l].parent = n /\ h3.nodes[r].parent = n
          /\ LeafBits(LeafOf(h3, l)) = SubSeq(bits, 1, keep)
          /\ LeafBits(LeafOf(h3, r)) = SubSeq(bits, keep + 1, Len(bits))
          /\ h3.nodes[n].num_bits_left_tree = keep
          /\ h3.nodes[n].ones_in_left_tree = Count(bits, 1, keep))

\* insert(i, b) as a whole: it splits exactly when its leaf reaches
\* MaxLeafSizeBlocks, the leaf is replaced in the left-to-right order by
\* its two halves, and the fix-up leaves no RED inner node under a RED one.
SplitsAtOnce(i, b) ==
  LET sizes == LeafSizes(Heap)
      k == LeafIndexIns(sizes, i, 1)
      keep == (CeilDiv(sizes[k] + 1, BLOCK_SIZE) \div 2) * BLOCK_SIZE
  IN Let(insert(Heap, i, b), LAMBDA after :
       /\ ("split" \in after.ev) <=> ReachesMax(i)
       /\ ReachesMax(i) =>
            /\ LeafSizes(after) =
                 [m \in 1..(Len(sizes) + 1) |->
                    IF m < k THEN sizes[m]
                    ELSE IF m = k THEN keep
                    ELSE IF m = k + 1 THEN sizes[k] + 1 - keep
                    ELSE sizes[m - 1]]
            /\ \A v \in DOMAIN after.nodes :
                 get_color(after, v) = "RED" =>
                   get_color(after, after.nodes[v].parent) # "RED")

\* C32: when an insert makes a leaf's block count reach MaxLeafSizeBlocks
\* the leaf is split at once: its container becomes an inner node with two
\* BLACK leaf children, the left leaf keeps floor(blocks / 2) full blocks,
\* num_bits_left_tree and ones_in_left_tree are the left leaf's size and
\* popcount, and the insertion fix-up runs.
C32_SplitOnReachingMax ==
  \A i \in ProbePositions(current_size), b \in {0, 1} :
    /\ SplitsAtOnce(i, b)
    /\ ReachesMax(i) => SplitStepAsStated(i, b)

\* An insert into the middle of a vector of several leaves that splits a
\* leaf and whose fix-up then rotates.
C32_Witness ==
  \E i \in ProbePositions(current_size) :
    /\ 0 < i /\ i < current_size
    /\ Len(LeafSizes(Heap)) > 2
    /\ ReachesMax(i)
    /\ SplitStepAsStated(i, 1)
    /\ SplitsAtOnce(i, 1)
    /\ "insert_rotate_inner" \in insert(Heap, i, 1).ev


(***************************************************************************)
(* Out-of-range mutations.                                                 *)
(***************************************************************************)
\* h is the present vector in every field: nodes with their counters,
\* colours, links and leaves, root, size and number of ones.
Untouched(h) == [h EXCEPT !.ev = {}] = Heap

\* Positions past the end: the next ones and the largest SizeType value.
PastEnd(from) == {p \in {from, from + 1, SIZE_MOD - 1} : p >= from}

\* C33: out-of-range mutations are rejected without any state change:
\* insert(i, b) with i > size(), delete_element(i) with i >= size() and
\* pop_back() on an empty vector leave the bit sequence, size(),
\* num_ones(), the tree shape and every node counter as they were.
C33_OutOfRangeIgnored ==
  /\ \A i \in PastEnd(current_size + 1), b \in {0, 1} :
       /\ Untouched(insert(Heap, i, b))
       /\ TreeBits(insert(Heap, i, b)) = expected
  /\ \A i \in PastEnd(current_size) :
       /\ Untouched(delete_element(Heap, i))
       /\ TreeBits(delete_element(Heap, i)) = expected
  /\ current_size = 0 => Untouched(pop_back(Heap))

\* A vector of several leaves holding ones on which an out-of-range
\* delete_element has just been ignored and an out-of-range insert is too.
C33_Witness ==
  /\ Did("delete_ignored")
  /\ InnerNodes # {}
  /\ total_ones > 0
  /\ insert(Heap, current_size + 1, 1).ev = {"insert_ignored"}
  /\ Untouched(insert(Heap, current_size + 1, 1))


(***************************************************************************)
(* Block accesses of rank.                                                 *)
(***************************************************************************)
\* The indices of data.blocks that rank_one(i) reads: block_num for the
\* masked popcount, then every block before it.
rank_one_block_reads(i) ==
  {i \div BLOCK_SIZE} \cup {block \in 0..(i \div BLOCK_SIZE) : block < i \div BLOCK_SIZE}

\* C34: for every leaf of s bits and every i in [0, s], i = s with s a
\* multiple of W included, rank_one(i) and rank_zero(i) read only block
\* indices below size_in_blocks().
C34_RankReadsInRange ==
  \A n \in LeafNodes :
    \A i \in 0..Leaf_size(LeafOf(Heap, n)) :
      \A block \in rank_one_block_reads(i) :
        /\ block < size_in_blocks(LeafOf(Heap, n))
        /\ blocks_read(LeafOf(Heap, n), block) = {LeafOf(Heap, n).blocks[block + 1]}


(***************************************************************************)
(* DOUBLE_BLACK after a mutation has returned.                             *)
(***************************************************************************)
\* C35: the colour DOUBLE_BLACK is transient: after every public mutation
\* has returned, whichever branch of the double-black loop ended the
\* rebalance, no node reachable from the root has colour DOUBLE_BLACK.
C35_NoDoubleBlackLeft ==
  \A n \in DOMAIN nodes : nodes[n].color # "DOUBLE_BLACK"

====
